---- MODULE Spec2Model ----
(***************************************************************************)
(* Verification model of membry-project-management: the MemberManager      *)
(* (services/member-manager.ts), the PhaseManager (workflows/              *)
(* phase-manager.ts), the dashboard statistics (dashboard/                 *)
(* project-dashboard.ts) and the task-update handler of the web server.    *)
(***************************************************************************)
EXTENDS Integers, Sequences, FiniteSets, TLC

VARIABLES
    members,    \* MemberManager.members, in Map insertion order
    taskPool,   \* the Task objects callers hand to the MemberManager
    teams,      \* MemberManager.teams, in Map insertion order
    larkClient, \* MemberManager.larkClient: set or undefined
    mret,       \* the last MemberManager call and what it returned
    project,    \* a Project: its tasks and its four PhaseInfo records
    config,     \* PhaseManager.config (WorkflowConfig)
    pending,    \* a transitionToNextPhase call suspended at its await
    ret,        \* what the last PhaseManager / dashboard / server call returned
    now         \* the clock read by new Date()

vars == <<members, taskPool, teams, larkClient, mret, project, config, pending,
          ret, now>>

memberVars == <<members, taskPool, teams, larkClient, mret>>
projectVars == <<project, config, pending, ret, now>>

-----------------------------------------------------------------------------
(* Enumerations of types/index.ts *)

SALES == "sales"
DESIGN == "design"
MANUFACTURING == "manufacturing"
CONSTRUCTION == "construction"
ProjectPhase == {SALES, DESIGN, MANUFACTURING, CONSTRUCTION}

NOT_STARTED == "not_started"
IN_PROGRESS == "in_progress"
BLOCKED == "blocked"
COMPLETED == "completed"
CANCELLED == "cancelled"
TaskStatus == {NOT_STARTED, IN_PROGRESS, BLOCKED, COMPLETED, CANCELLED}

LOW == "low"
MEDIUM == "medium"
HIGH == "high"
CRITICAL == "critical"
TaskPriority == {LOW, MEDIUM, HIGH, CRITICAL}

SK_SALES == "sales"
SK_DESIGN == "design"
SK_MANUFACTURING == "manufacturing"
SK_CONSTRUCTION == "construction"
SK_PROJECT_MANAGEMENT == "project_management"
SK_QUALITY_ASSURANCE == "quality_assurance"
MemberSkill == {SK_SALES, SK_DESIGN, SK_MANUFACTURING, SK_CONSTRUCTION,
                SK_PROJECT_MANAGEMENT, SK_QUALITY_ASSURANCE}

\* an optional field that is not set (undefined)
None == "undefined"

-----------------------------------------------------------------------------
(* Helpers over sequences *)

RECURSIVE SumSeq(_)
SumSeq(s) == IF s = <<>> THEN 0 ELSE Head(s) + SumSeq(Tail(s))

RECURSIVE FilterSeq(_, _)
\* Array.prototype.filter keeping the elements that differ from x
FilterSeq(s, x) ==
    IF s = <<>> THEN <<>>
    ELSE IF Head(s) = x THEN FilterSeq(Tail(s), x)
         ELSE <<Head(s)>> \o FilterSeq(Tail(s), x)

Min2(a, b) == IF a < b THEN a ELSE b

-----------------------------------------------------------------------------
(* MemberManager *)

\* bounds of the member model
MaxAssigned == 2
MaxLoad == 12

\* the members a roster sync or addMember registered: a name (possibly the
\* empty string), a skill set and a weekly availability; syncMembersFromLark
\* gives availability 40, updateMemberAvailability any other value
Mk(id, name, skills, availability) ==
    [id |-> id, name |-> name, skills |-> skills, availability |-> availability,
     currentLoad |-> 0, assignedTasks |-> <<>>]

Rosters ==
    { << Mk("m1", "Yamada", {SK_SALES, SK_PROJECT_MANAGEMENT}, 10),
         Mk("m2", "Sato", {SK_DESIGN, SK_QUALITY_ASSURANCE, SK_SALES}, 40) >>,
      << Mk("m1", "Yamada", {}, 8),
         Mk("m2", "Sato", {SK_DESIGN}, 8) >>,
      << Mk("m1", "", {SK_SALES}, 40),
         Mk("m2", "Sato", {SK_CONSTRUCTION, SK_QUALITY_ASSURANCE}, 10) >> }

\* an id no member is registered under
UnknownMember == "m9"
MemberIdArgs == {"m1", "m2", UnknownMember}

\* the tasks handed to the manager; estimatedHours 0 stands for "unset"
\* (the code reads it as task.estimatedHours || 0)
MkTask(id, phase, priority, hours) ==
    [id |-> id, phase |-> phase, priority |-> priority, estimatedHours |-> hours,
     assignee |-> None, assigneeId |-> None]

TaskPools ==
    { << MkTask("t1", SALES, MEDIUM, 4), MkTask("t2", DESIGN, CRITICAL, 8) >>,
      << MkTask("t1", DESIGN, HIGH, 8), MkTask("t2", CONSTRUCTION, LOW, 0) >> }

MemberIndex(memberId) ==
    IF \E i \in 1..Len(members) : members[i].id = memberId
    THEN CHOOSE i \in 1..Len(members) : members[i].id = memberId
    ELSE 0

\* !t.assignee: undefined and the empty string are both falsy
Falsy(a) == a = None \/ a = ""

getRequiredSkillsForPhase(phase) ==
    CASE phase = SALES -> {SK_SALES, SK_PROJECT_MANAGEMENT}
      [] phase = DESIGN -> {SK_DESIGN, SK_QUALITY_ASSURANCE}
      [] phase = MANUFACTURING -> {SK_MANUFACTURING, SK_QUALITY_ASSURANCE}
      [] phase = CONSTRUCTION -> {SK_CONSTRUCTION, SK_QUALITY_ASSURANCE}
      [] OTHER -> {}

\* the score that is not a number: it is neither above nor below any score,
\* and here it stands below all of them
NaN == -1

\* a variant without the max(0, ...): Math.round(k + 20 - (load /
\* availability) * 20)
RoundWithLoadBonusUnclamped(k, load, availability) ==
    IF availability = 0 THEN k
    ELSE (2 * k * availability + 40 * availability - 40 * load + availability)
            \div (2 * availability)

\* Math.round(k + max(0, 20 - (load / availability) * 20)) for an integer k;
\* load / availability is NaN for 0 / 0, and then so are the maximum and the
\* rounded sum, and Infinity for a positive load over 0
RoundWithLoadBonus(k, load, availability) ==
    IF availability = 0 /\ load = 0 THEN NaN
    ELSE IF load >= availability THEN k
    ELSE (2 * k * availability + 40 * availability - 40 * load + availability)
            \div (2 * availability)

calculateAssignmentScore(member, task, requiredSkills) ==
    LET matching == Cardinality(member.skills \cap requiredSkills)
        skillPts == (matching * 50) \div Cardinality(requiredSkills)
        load == member.currentLoad
        avail == member.availability
        loadPts == IF 10 * load < 7 * avail THEN 30
                   ELSE IF 10 * load < 9 * avail THEN 20
                   ELSE IF load < avail THEN 10
                   ELSE 0
        k == skillPts + loadPts
    IN  IF task.priority = CRITICAL
        THEN Min2(100, k + (IF Cardinality(member.skills) >= 3 THEN 20
                            ELSE IF Cardinality(member.skills) >= 2 THEN 10
                            ELSE 0))
        ELSE LET rounded == RoundWithLoadBonus(k, load, avail)
             IN  \* Math.min(100, NaN) is NaN
                 IF rounded = NaN THEN NaN ELSE Min2(100, rounded)

\* the <<member index, score>> pairs with score > 0, in Map insertion order
RECURSIVE RankFrom(_, _, _)
RankFrom(ms, task, i) ==
    IF i > Len(ms) THEN <<>>
    ELSE LET rest == RankFrom(ms, task, i + 1)
             score == calculateAssignmentScore(ms[i], task,
                          getRequiredSkillsForPhase(task.phase))
         IN  \* NaN > 0 is false
             IF score # NaN /\ score > 0
             THEN << <<i, score>> >> \o rest
             ELSE rest

\* recommendations.sort((a, b) => b.score - a.score): descending and stable,
\* so equal scores stay in Map insertion order
RECURSIVE SortByScore(_)
SortByScore(recs) ==
    IF recs = <<>> THEN <<>>
    ELSE LET sortedTail == SortByScore(Tail(recs))
         IN  \* Head(recs) precedes every later element of equal score
             IF sortedTail = <<>> \/ Head(recs)[2] >= Head(sortedTail)[2]
             THEN <<Head(recs)>> \o sortedTail
             ELSE <<Head(sortedTail)>>
                    \o SortByScore(<<Head(recs)>> \o Tail(sortedTail))

recommendMembersForTask(ms, task, topN) ==
    LET sorted == SortByScore(RankFrom(ms, task, 1))
    IN  SubSeq(sorted, 1, Min2(topN, Len(sorted)))

\* the effect of assignTaskToMember on the member list
AssignMember(ms, i, task) ==
    [ms EXCEPT ![i].assignedTasks = Append(@, task.id),
               ![i].currentLoad = @ + task.estimatedHours]

\* the effect of assignTaskToMember on the task
AssignTask(ms, i, task) ==
    [task EXCEPT !.assignee = ms[i].name, !.assigneeId = ms[i].id]

\* a variant that removes the id and leaves currentLoad as it is
UnassignMemberKeepLoad(ms, i, taskId, estimatedHours) ==
    [ms EXCEPT ![i].assignedTasks = FilterSeq(@, taskId)]

\* the effect of unassignTaskFromMember on the member list
UnassignMember(ms, i, taskId, estimatedHours) ==
    [ms EXCEPT ![i].assignedTasks = FilterSeq(@, taskId),
               ![i].currentLoad = IF @ - estimatedHours < 0 THEN 0
                                  ELSE @ - estimatedHours]

\* balanceLoad: the loop over the unassigned tasks, in input order; st holds
\* the members, the tasks and the returned assignments (memberId, taskId)
RECURSIVE BalanceFrom(_, _)
BalanceFrom(st, k) ==
    IF k > Len(st.tasks) THEN st
    ELSE IF ~ Falsy(st.unassigned[k]) THEN BalanceFrom(st, k + 1)
    ELSE LET task == st.tasks[k]
             recs == recommendMembersForTask(st.members, task, 1)
         IN  IF recs = <<>> THEN BalanceFrom(st, k + 1)
             ELSE LET best == recs[1][1]
                  IN  BalanceFrom(
                        [st EXCEPT
                           !.members = AssignMember(st.members, best, task),
                           !.tasks[k] = AssignTask(st.members, best, task),
                           !.assignments = Append(@, <<st.members[best].id, task.id>>)],
                        k + 1)

balanceLoadResult(ms, ts) ==
    BalanceFrom([members |-> ms, tasks |-> ts,
                 \* tasks.filter(t => !t.assignee) is taken before the loop
                 unassigned |-> [k \in 1..Len(ts) |-> ts[k].assignee],
                 assignments |-> <<>>], 1)

ProjectIdle ==
    /\ project = [tasks |-> <<>>]
    /\ config = [autoTransition |-> FALSE]
    /\ pending = [active |-> FALSE]
    /\ ret = [op |-> "none"]
    /\ now = 0

\* no MemberManager call was made yet
NoCall == [op |-> "none"]

MemberInit ==
    /\ members \in Rosters
    /\ taskPool \in TaskPools
    /\ teams = <<>>
    /\ larkClient = None
    /\ mret = NoCall
    /\ ProjectIdle

assignTaskToMember(memberId, k) ==
    LET i == MemberIndex(memberId)
    IN  /\ IF i # 0
           THEN /\ Len(members[i].assignedTasks) < MaxAssigned
                /\ members[i].currentLoad + taskPool[k].estimatedHours <= MaxLoad
                /\ members' = AssignMember(members, i, taskPool[k])
                /\ taskPool' = [taskPool EXCEPT ![k] = AssignTask(members, i, taskPool[k])]
           ELSE UNCHANGED <<members, taskPool>>
        /\ mret' = [op |-> "assignTaskToMember", memberId |-> memberId,
                    taskId |-> taskPool[k].id]
        /\ UNCHANGED <<teams, larkClient, projectVars>>

unassignTaskFromMember(memberId, taskId, estimatedHours) ==
    LET i == MemberIndex(memberId)
    IN  /\ IF i # 0
           THEN members' = UnassignMember(members, i, taskId, estimatedHours)
           ELSE UNCHANGED members
        /\ UNCHANGED taskPool
        /\ mret' = [op |-> "unassignTaskFromMember", memberId |-> memberId,
                    taskId |-> taskId, estimatedHours |-> estimatedHours]
        /\ UNCHANGED <<teams, larkClient, projectVars>>

balanceLoad ==
    LET r == balanceLoadResult(members, taskPool)
    IN  /\ members' = r.members
        /\ taskPool' = r.tasks
        /\ mret' = [op |-> "balanceLoad", value |-> r.assignments]
        /\ UNCHANGED <<teams, larkClient, projectVars>>

\* the passes that keep every member within the bounds of the member model
balanceLoadWithinBounds ==
    LET r == balanceLoadResult(members, taskPool)
    IN  /\ \A i \in 1..Len(r.members) :
              /\ Len(r.members[i].assignedTasks) <= MaxAssigned
              /\ r.members[i].currentLoad <= MaxLoad
        /\ balanceLoad

MemberNext ==
    \/ \E m \in MemberIdArgs, k \in 1..Len(taskPool) :
          assignTaskToMember(m, k)
    \/ \E m \in MemberIdArgs, k \in 1..Len(taskPool), useDefault \in BOOLEAN :
          unassignTaskFromMember(m, taskPool[k].id,
              IF useDefault THEN 0 ELSE taskPool[k].estimatedHours)
    \/ balanceLoadWithinBounds

SpecMember ==
    /\ MemberInit
    /\ [][MemberNext]_vars

-----------------------------------------------------------------------------
(* C1 *)

RECURSIVE HoursOf(_, _)
\* estimatedHours (0 if unset) of the task with the given id
HoursOf(ts, taskId) ==
    IF ts = <<>> THEN 0
    ELSE IF Head(ts).id = taskId THEN Head(ts).estimatedHours
         ELSE HoursOf(Tail(ts), taskId)

AssignedHours(m) ==
    SumSeq([j \in 1..Len(m.assignedTasks) |-> HoursOf(taskPool, m.assignedTasks[j])])

\* C1: every member's currentLoad equals the sum of the estimatedHours (0 if
\* unset) of the tasks listed in its assignedTasks, after any sequence of
\* assignTaskToMember, unassignTaskFromMember and balanceLoad calls.
C1_LoadMatchesAssigned ==
    \A i \in 1..Len(members) :
        members[i].currentLoad = AssignedHours(members[i])

-----------------------------------------------------------------------------
(* PhaseManager and the project it works on *)

\* bounds of the project model
NumTasks == 3
MaxNow == 1

PHASE_ORDER == <<SALES, DESIGN, MANUFACTURING, CONSTRUCTION>>

IndexOfPhase(phase) == CHOOSE i \in 1..Len(PHASE_ORDER) : PHASE_ORDER[i] = phase

\* PHASE_TEMPLATES cut to its first two templates per phase, and the generated
\* list cut to NumTasks tasks
TemplatesPerPhase == 2

\* generateStandardTasks: tasks in phase order, template order within a
\* phase, all NOT_STARTED with progress 0
StandardTask(n) ==
    LET phaseIdx == ((n - 1) \div TemplatesPerPhase) + 1
        index == (n - 1) % TemplatesPerPhase
    IN  [id |-> <<PHASE_ORDER[phaseIdx], index + 1>>,
         phase |-> PHASE_ORDER[phaseIdx],
         status |-> NOT_STARTED,
         progress |-> 0]

generateStandardTasks == [n \in 1..NumTasks |-> StandardTask(n)]

\* a Date field that is not set; the clock starts after it
NoDate == 0

\* a PhaseInfo as the server's POST /api/projects and the README create it
FreshPhaseInfo(phase) ==
    [phase |-> phase, status |-> NOT_STARTED, progress |-> 0,
     startDate |-> NoDate, endDate |-> NoDate, responsible |-> None]

FreshPhases == [p \in ProjectPhase |-> FreshPhaseInfo(p)]

\* the workflow configurations the repository constructs (server, demo) and
\* their variations
\* approvers is an object with optional keys: a function on the configured phases
NoApprovers == [p \in {} |-> <<>>]
DemoApprovers ==
    [p \in {DESIGN, MANUFACTURING, CONSTRUCTION} |->
        CASE p = DESIGN -> <<"manager@example.com">>
          [] p = MANUFACTURING -> <<"director@example.com">>
          [] p = CONSTRUCTION -> <<"pm@example.com">>]
DesignApprovers == [p \in {DESIGN} |-> <<"manager@example.com">>]

\* this.config.approvers?.[phase] is set (an array, so truthy)
HasApprovers(cfg, phase) == phase \in DOMAIN cfg.approvers

Configs ==
    { [autoTransition |-> TRUE, requireApproval |-> FALSE, approvers |-> NoApprovers],
      [autoTransition |-> TRUE, requireApproval |-> TRUE, approvers |-> DemoApprovers],
      [autoTransition |-> FALSE, requireApproval |-> TRUE, approvers |-> DesignApprovers],
      [autoTransition |-> FALSE, requireApproval |-> FALSE, approvers |-> DemoApprovers] }

\* Math.round(total / count) for total >= 0, count > 0: halves round up
Round(total, count) == (2 * total + count) \div (2 * count)

RECURSIVE FilterPhase(_, _)
\* tasks.filter(t => t.phase === phase)
FilterPhase(tasks, phase) ==
    IF tasks = <<>> THEN <<>>
    ELSE IF Head(tasks).phase = phase
         THEN <<Head(tasks)>> \o FilterPhase(Tail(tasks), phase)
         ELSE FilterPhase(Tail(tasks), phase)

RECURSIVE TotalProgress(_)
\* phaseTasks.reduce((sum, task) => sum + task.progress, 0)
TotalProgress(tasks) ==
    IF tasks = <<>> THEN 0 ELSE Head(tasks).progress + TotalProgress(Tail(tasks))

\* a variant that divides by the length of the whole task list
calculatePhaseProgressOverAllTasks(phase, tasks) ==
    LET phaseTasks == FilterPhase(tasks, phase)
    IN  IF Len(phaseTasks) = 0 THEN 0
        ELSE Round(TotalProgress(phaseTasks), Len(tasks))

calculatePhaseProgress(phase, tasks) ==
    LET phaseTasks == FilterPhase(tasks, phase)
    IN  IF Len(phaseTasks) = 0 THEN 0
        ELSE Round(TotalProgress(phaseTasks), Len(phaseTasks))

Every(tasks, status) == \A i \in 1..Len(tasks) : tasks[i].status = status
Some(tasks, status) == \E i \in 1..Len(tasks) : tasks[i].status = status

\* a variant that tests BLOCKED before IN_PROGRESS
updatePhaseStatusBlockedFirst(phaseInfo, tasks) ==
    LET progress == calculatePhaseProgress(phaseInfo.phase, tasks)
        phaseTasks == FilterPhase(tasks, phaseInfo.phase)
        status == IF Every(phaseTasks, COMPLETED) THEN COMPLETED
                  ELSE IF Some(phaseTasks, BLOCKED) THEN BLOCKED
                  ELSE IF Some(phaseTasks, IN_PROGRESS) THEN IN_PROGRESS
                  ELSE IF Some(phaseTasks, COMPLETED) THEN IN_PROGRESS
                  ELSE NOT_STARTED
    IN  [phaseInfo EXCEPT !.progress = progress, !.status = status]

updatePhaseStatus(phaseInfo, tasks) ==
    LET progress == calculatePhaseProgress(phaseInfo.phase, tasks)
        phaseTasks == FilterPhase(tasks, phaseInfo.phase)
        status == IF Every(phaseTasks, COMPLETED) THEN COMPLETED
                  ELSE IF Some(phaseTasks, IN_PROGRESS) THEN IN_PROGRESS
                  ELSE IF Some(phaseTasks, BLOCKED) THEN BLOCKED
                  ELSE IF Some(phaseTasks, COMPLETED) THEN IN_PROGRESS
                  ELSE NOT_STARTED
    IN  [phaseInfo EXCEPT !.progress = progress, !.status = status]

\* a variant that is satisfied by one completed task
canTransitionWhenSomeCompleted(currentPhase, tasks) ==
    Some(FilterPhase(tasks, currentPhase), COMPLETED)

canTransitionToNextPhase(currentPhase, tasks) ==
    Every(FilterPhase(tasks, currentPhase), COMPLETED)

\* calculateOverallProgress: the mean of the stored progress of the phases
calculateOverallProgress(proj) ==
    LET phaseProgresses == [i \in 1..Len(PHASE_ORDER) |->
                               proj.phases[PHASE_ORDER[i]].progress]
    IN  Round(SumSeq(phaseProgresses), Len(phaseProgresses))

\* what transitionToNextPhase resolves to (or that it rejected: threw)
TransitionResult(currentPhase, success, nextPhase, message, callback) ==
    [op |-> "transitionToNextPhase", currentPhase |-> currentPhase,
     threw |-> FALSE, success |-> success,
     nextPhase |-> nextPhase, message |-> message, callback |-> callback]

NotInvoked == [invoked |-> FALSE]

NoRet == [op |-> "none"]

NoPending == [active |-> FALSE]

\* a variant that also marks the target phase as started
StampStartAndStatus(proj, nextPhase, time) ==
    [proj EXCEPT !.phases[nextPhase].startDate = time,
                 !.phases[nextPhase].status = IN_PROGRESS]

\* project.phases[nextPhase].startDate = new Date()
StampStart(proj, nextPhase, time) ==
    [proj EXCEPT !.phases[nextPhase].startDate = time]

\* a variant that compares with PHASE_ORDER.length
IsLastPhaseOffByOne(currentIndex) == currentIndex = Len(PHASE_ORDER) + 1

\* currentIndex === PhaseManager.PHASE_ORDER.length - 1 (indices from 1 here)
IsLastPhase(currentIndex) == currentIndex = Len(PHASE_ORDER)

\* PhaseManager.PHASE_ORDER[currentIndex + 1]; undefined past the end
NextPhaseOf(currentIndex) ==
    IF currentIndex + 1 \in 1..Len(PHASE_ORDER) THEN PHASE_ORDER[currentIndex + 1]
    ELSE None

\* transitionToNextPhase up to its return or to the await of the approval
\* callback
TransitionCall(currentPhase, hasCallback) ==
    LET currentIndex == IndexOfPhase(currentPhase)
        nextPhase == NextPhaseOf(currentIndex)
    IN  /\ ~ pending.active
        /\ IF IsLastPhase(currentIndex)
           THEN /\ ret' = TransitionResult(currentPhase, FALSE, None,
                                           "already_last_phase", NotInvoked)
                /\ UNCHANGED <<project, pending, now>>
           ELSE IF ~ canTransitionToNextPhase(currentPhase, project.tasks)
           THEN /\ ret' = TransitionResult(currentPhase, FALSE, None,
                                           "tasks_not_completed", NotInvoked)
                /\ UNCHANGED <<project, pending, now>>
           ELSE IF /\ config.requireApproval
                   /\ HasApprovers(config, nextPhase)
                   /\ hasCallback
           THEN /\ pending' = [active |-> TRUE, currentPhase |-> currentPhase,
                               nextPhase |-> nextPhase,
                               approvers |-> config.approvers[nextPhase]]
                /\ ret' = NoRet
                /\ UNCHANGED <<project, now>>
           ELSE IF nextPhase = None
           THEN \* project.phases[undefined].startDate = ... is a TypeError
                /\ ret' = [TransitionResult(currentPhase, FALSE, None, None,
                                            NotInvoked) EXCEPT !.threw = TRUE]
                /\ UNCHANGED <<project, pending, now>>
           ELSE /\ now < MaxNow
                /\ now' = now + 1
                /\ project' = StampStart(project, nextPhase, now')
                /\ ret' = TransitionResult(currentPhase, TRUE, nextPhase,
                                           "transitioned", NotInvoked)
                /\ UNCHANGED pending
        /\ UNCHANGED <<config, memberVars>>

\* the approval callback settles and transitionToNextPhase resumes
ApprovalReturns(outcome) ==
    LET callback == [invoked |-> TRUE, phase |-> pending.nextPhase,
                     approvers |-> pending.approvers, returned |-> outcome]
    IN  /\ pending.active
        /\ pending' = NoPending
        /\ CASE outcome = "rejects" ->
                  /\ ret' = [TransitionResult(pending.currentPhase, FALSE, None,
                                              None, callback) EXCEPT !.threw = TRUE]
                  /\ UNCHANGED <<project, now>>
             [] outcome = "false" ->
                  /\ ret' = TransitionResult(pending.currentPhase, FALSE, None,
                                             "approval_rejected", callback)
                  /\ UNCHANGED <<project, now>>
             [] outcome = "true" ->
                  /\ now < MaxNow
                  /\ now' = now + 1
                  /\ project' = StampStart(project, pending.nextPhase, now')
                  /\ ret' = TransitionResult(pending.currentPhase, TRUE,
                                             pending.nextPhase, "transitioned", callback)
        /\ UNCHANGED <<config, memberVars>>

\* the request bodies of PUT /api/projects/:projectId/tasks/:taskId
PutBodies ==
    { [status |-> NOT_STARTED, progress |-> 0],
      [status |-> IN_PROGRESS, progress |-> 50],
      [status |-> COMPLETED, progress |-> 100] }

\* { ...project.tasks[taskIndex], ...req.body }
Merge(task, body) == [task EXCEPT !.status = body.status, !.progress = body.progress]

\* Object.values(project.phases).forEach(phase => ... updatePhaseStatus ...)
RecomputePhases(phases, tasks) ==
    [p \in ProjectPhase |-> updatePhaseStatus(phases[p], tasks)]

\* PUT /api/projects/:projectId/tasks/:taskId for an existing project and task
PutTask(taskIndex, body) ==
    LET tasks == [project.tasks EXCEPT ![taskIndex] = Merge(@, body)]
    IN  /\ project' = [project EXCEPT !.tasks = tasks,
                                      !.phases = RecomputePhases(@, tasks)]
        /\ ret' = [op |-> "putTask", status |-> 200]
        /\ UNCHANGED <<config, pending, now, memberVars>>

MemberIdle ==
    /\ members = <<>>
    /\ taskPool = <<>>
    /\ teams = <<>>
    /\ larkClient = None
    /\ mret = NoCall

Init ==
    /\ project = [tasks |-> generateStandardTasks, phases |-> FreshPhases]
    /\ config \in Configs
    /\ pending = NoPending
    /\ ret = NoRet
    /\ now = 0
    /\ MemberIdle

Next ==
    \/ \E p \in ProjectPhase, hasCallback \in BOOLEAN : TransitionCall(p, hasCallback)
    \/ \E outcome \in {"true", "false", "rejects"} : ApprovalReturns(outcome)
    \/ \E k \in 1..NumTasks, body \in PutBodies : PutTask(k, body)

Spec == Init /\ [][Next]_vars

\* the server's own instance: autoTransition true, no approval, and clients
\* that send any status
AutoBodies ==
    PutBodies \cup { [status |-> BLOCKED, progress |-> 50],
                     [status |-> CANCELLED, progress |-> 0] }

AutoInit ==
    /\ project = [tasks |-> generateStandardTasks, phases |-> FreshPhases]
    /\ config = [autoTransition |-> TRUE, requireApproval |-> FALSE,
                 approvers |-> NoApprovers]
    /\ pending = NoPending
    /\ ret = NoRet
    /\ now = 0
    /\ MemberIdle

AutoNext == \E k \in 1..NumTasks, body \in AutoBodies : PutTask(k, body)

\* every request the server receives is handled
SpecAuto == AutoInit /\ [][AutoNext]_vars /\ WF_vars(AutoNext)

-----------------------------------------------------------------------------
(* C2 - C7: phase transitions *)

IsTransitionReturn(r) == r.op = "transitionToNextPhase" /\ ~ r.threw

\* some task of the phase is not COMPLETED
HasOpenTask(tasks, phase) ==
    \E i \in 1..Len(tasks) : tasks[i].phase = phase /\ tasks[i].status # COMPLETED

FollowingPhase(phase) ==
    CASE phase = SALES -> DESIGN
      [] phase = DESIGN -> MANUFACTURING
      [] phase = MANUFACTURING -> CONSTRUCTION
      [] OTHER -> None

ApprovalConfigured(phase) ==
    /\ config.requireApproval
    /\ FollowingPhase(phase) \in DOMAIN config.approvers

\* C2: with no approval required and currentPhase not the last phase, the
\* call fails and leaves the project as it was when a task of currentPhase is
\* not COMPLETED; otherwise it succeeds, names the following phase and stamps
\* that phase's startDate with the current time.
C2_TransitionGate ==
    [][ ( /\ IsTransitionReturn(ret')
          /\ ret'.currentPhase # CONSTRUCTION
          /\ ~ ApprovalConfigured(ret'.currentPhase) )
        => IF HasOpenTask(project.tasks, ret'.currentPhase)
           THEN /\ ~ ret'.success
                /\ project' = project
           ELSE /\ ret'.success
                /\ ret'.nextPhase = FollowingPhase(ret'.currentPhase)
                /\ now' > now
                /\ project'.phases[ret'.nextPhase].startDate = now'
      ]_vars

C2_Witness ==
    /\ IsTransitionReturn(ret)
    /\ ~ config.requireApproval
    /\ ret.success
    /\ ret.currentPhase = SALES
    /\ project.phases[DESIGN].startDate = now
    /\ now > 0

\* C3: when approval is required and approvers are configured for the target
\* phase, success implies the callback was invoked with (target phase,
\* configured approvers) and returned true; a callback returning false gives
\* success=false, no exception and no start date stamped.
C3_ApprovalGate ==
    [][ ( /\ ret'.op = "transitionToNextPhase"
          /\ ret'.currentPhase # CONSTRUCTION
          /\ ApprovalConfigured(ret'.currentPhase) )
        => /\ ( (~ ret'.threw /\ ret'.success) =>
                  /\ ret'.callback.invoked
                  /\ ret'.callback.phase = FollowingPhase(ret'.currentPhase)
                  /\ ret'.callback.approvers =
                         config.approvers[FollowingPhase(ret'.currentPhase)]
                  /\ ret'.callback.returned = "true" )
           /\ ( (ret'.callback.invoked /\ ret'.callback.returned = "false") =>
                  /\ ~ ret'.success
                  /\ ~ ret'.threw
                  /\ project' = project )
      ]_vars

\* C4: from the last phase the call always returns success=false with a
\* message and no nextPhase; and none of the three invalid-transition outcomes
\* (last phase, an uncompleted task in the current phase, approval rejected)
\* raises an exception.
C4_InvalidTransitionIsResult ==
    ret.op = "transitionToNextPhase" =>
        /\ ret.currentPhase = CONSTRUCTION =>
              /\ ~ ret.threw
              /\ ~ ret.success
              /\ ret.message # None
              /\ ret.nextPhase = None
        /\ ( \/ ret.currentPhase = CONSTRUCTION
             \/ ( ~ ret.callback.invoked
                   /\ HasOpenTask(project.tasks, ret.currentPhase) )
             \/ ( ret.callback.invoked /\ ret.callback.returned = "false" ) )
           => /\ ~ ret.threw
              /\ ~ ret.success
              /\ ret.message # None

C4_Witness ==
    /\ ret.op = "transitionToNextPhase"
    /\ ret.currentPhase = CONSTRUCTION
    /\ config.requireApproval
    /\ ~ ret.success

\* C5: a transitionToNextPhase step never changes project.tasks nor any
\* phase's status, progress or endDate; a failing call leaves the project
\* unchanged and a successful one changes only the target phase's startDate.
C5_TransitionFrame ==
    [][ (ret'.op = "transitionToNextPhase" \/ pending' # pending)
        => /\ project'.tasks = project.tasks
           /\ \A p \in ProjectPhase :
                 /\ project'.phases[p].status = project.phases[p].status
                 /\ project'.phases[p].progress = project.phases[p].progress
                 /\ project'.phases[p].endDate = project.phases[p].endDate
           /\ IF ret'.op = "transitionToNextPhase" /\ ret'.success
              THEN \A p \in ProjectPhase \ {ret'.nextPhase} :
                      project'.phases[p] = project.phases[p]
              ELSE project' = project
      ]_vars

C5_Witness ==
    /\ ret.op = "transitionToNextPhase"
    /\ ret.success
    /\ ret.callback.invoked
    /\ project.phases[ret.nextPhase].startDate = now
    /\ project.phases[ret.nextPhase].status = IN_PROGRESS

\* C6: no task of a phase is IN_PROGRESS or COMPLETED while some task of the
\* immediately preceding phase is not COMPLETED.
C6_PhasesStartInOrder ==
    \A i \in 1..Len(project.tasks) :
        LET t == project.tasks[i]
        IN  ( /\ t.status \in {IN_PROGRESS, COMPLETED}
              /\ t.phase # SALES )
            => ~ HasOpenTask(project.tasks,
                             PHASE_ORDER[IndexOfPhase(t.phase) - 1])

\* C7: with autoTransition enabled, once every task of a phase is COMPLETED
\* the following phase's start date is eventually stamped without an explicit
\* transitionToNextPhase call.
C7_AutoTransition ==
    ( /\ config.autoTransition
      /\ ~ HasOpenTask(project.tasks, SALES) )
    ~> ( project.phases[DESIGN].startDate # NoDate )

-----------------------------------------------------------------------------
(* Progress and status aggregation as functions of their inputs *)

\* bound on the task lists handed to the aggregation functions
MaxCalcTasks == 3

\* the PhaseInfo records of the server's demo project
DemoPhases ==
    [p \in ProjectPhase |->
        CASE p = SALES ->
               [phase |-> SALES, status |-> COMPLETED, progress |-> 100,
                startDate |-> 1, endDate |-> 2, responsible |-> "Yamada"]
          [] p = DESIGN ->
               [phase |-> DESIGN, status |-> IN_PROGRESS, progress |-> 70,
                startDate |-> 2, endDate |-> NoDate, responsible |-> "Sato"]
          [] OTHER -> FreshPhaseInfo(p)]

\* the status / progress pairs tasks are given
TaskSamples == AutoBodies

SampleTask(phase, n, sample) ==
    [id |-> <<phase, n>>, phase |-> phase,
     status |-> sample.status, progress |-> sample.progress]

\* five SALES tasks with progress 100, 100, 100, 50, 0
FixtureTasks ==
    << SampleTask(SALES, 1, [status |-> COMPLETED, progress |-> 100]),
       SampleTask(SALES, 2, [status |-> COMPLETED, progress |-> 100]),
       SampleTask(SALES, 3, [status |-> COMPLETED, progress |-> 100]),
       SampleTask(SALES, 4, [status |-> IN_PROGRESS, progress |-> 50]),
       SampleTask(SALES, 5, [status |-> NOT_STARTED, progress |-> 0]) >>

\* tasks.filter(t => t.status === status).length
countTasksByStatus(tasks, status) ==
    Cardinality({i \in 1..Len(tasks) : tasks[i].status = status})

\* ProjectDashboard.calculatePhaseProgress(project)
dashboardPhaseProgress(proj) ==
    [p \in ProjectPhase |-> calculatePhaseProgress(p, proj.tasks)]

generateStats(proj) ==
    [totalTasks |-> Len(proj.tasks),
     completedTasks |-> countTasksByStatus(proj.tasks, COMPLETED),
     inProgressTasks |-> countTasksByStatus(proj.tasks, IN_PROGRESS),
     blockedTasks |-> countTasksByStatus(proj.tasks, BLOCKED),
     overallProgress |-> calculateOverallProgress(proj),
     phaseProgress |-> dashboardPhaseProgress(proj)]

CalcInit ==
    /\ project \in [tasks : {<<>>, FixtureTasks}, phases : {FreshPhases, DemoPhases}]
    /\ config = [autoTransition |-> TRUE, requireApproval |-> FALSE,
                 approvers |-> NoApprovers]
    /\ pending = NoPending
    /\ ret = NoRet
    /\ now = 0
    /\ MemberIdle

\* the caller adds a task to the list (lists are kept in phase order, as
\* generateStandardTasks builds them)
AppendTask(phase, sample) ==
    LET tasks == project.tasks
        n == Len(FilterPhase(tasks, phase)) + 1
    IN  /\ Len(tasks) < MaxCalcTasks
        /\ tasks # <<>> =>
              IndexOfPhase(tasks[Len(tasks)].phase) <= IndexOfPhase(phase)
        /\ project' = [project EXCEPT !.tasks = Append(@, SampleTask(phase, n, sample))]
        /\ ret' = NoRet
        /\ UNCHANGED <<config, pending, now, memberVars>>

CallCalculatePhaseProgress(phase) ==
    /\ ret' = [op |-> "calculatePhaseProgress", phase |-> phase,
               value |-> calculatePhaseProgress(phase, project.tasks)]
    /\ UNCHANGED <<project, config, pending, now, memberVars>>

CallUpdatePhaseStatus(phase) ==
    /\ ret' = [op |-> "updatePhaseStatus", arg |-> project.phases[phase],
               value |-> updatePhaseStatus(project.phases[phase], project.tasks)]
    /\ UNCHANGED <<project, config, pending, now, memberVars>>

CallGenerateStats ==
    /\ ret' = [op |-> "generateStats", value |-> generateStats(project)]
    /\ UNCHANGED <<project, config, pending, now, memberVars>>

CalcNext ==
    \/ \E phase \in ProjectPhase, sample \in TaskSamples : AppendTask(phase, sample)
    \/ \E phase \in ProjectPhase : CallCalculatePhaseProgress(phase)
    \/ \E phase \in ProjectPhase : CallUpdatePhaseStatus(phase)
    \/ CallGenerateStats

SpecCalc == CalcInit /\ [][CalcNext]_vars

-----------------------------------------------------------------------------
(* C8 - C10: aggregation *)

\* the positions of the tasks of a phase
InPhase(tasks, phase) == {i \in 1..Len(tasks) : tasks[i].phase = phase}

RECURSIVE ProgressOver(_, _)
\* the sum of the progress of the tasks at the given positions
ProgressOver(tasks, idx) ==
    IF idx = {} THEN 0
    ELSE LET i == CHOOSE j \in idx : TRUE
         IN  tasks[i].progress + ProgressOver(tasks, idx \ {i})

\* v is the mean total / count rounded to the nearest integer
IsRoundedMean(v, total, count) ==
    /\ 2 * (v * count - total) <= count
    /\ 2 * (total - v * count) <= count

IsPhaseMean(v, tasks, phase) ==
    LET idx == InPhase(tasks, phase)
    IN  IF idx = {} THEN v = 0
        ELSE IsRoundedMean(v, ProgressOver(tasks, idx), Cardinality(idx))

\* C8: generateStats.overallProgress equals round(mean of the four values of
\* generateStats.phaseProgress), each of which is round(mean of the progress
\* of the tasks currently in that phase), whatever phase info is stored.
C8_OverallIsMeanOfPhases ==
    ret.op = "generateStats" =>
        LET stats == ret.value
            total == stats.phaseProgress[SALES] + stats.phaseProgress[DESIGN]
                     + stats.phaseProgress[MANUFACTURING]
                     + stats.phaseProgress[CONSTRUCTION]
        IN  /\ \A p \in ProjectPhase :
                  IsPhaseMean(stats.phaseProgress[p], project.tasks, p)
            /\ IsRoundedMean(stats.overallProgress, total, 4)

\* C9: calculatePhaseProgress(phase, tasks) is the mean progress of exactly
\* the tasks of that phase rounded to the nearest integer, 0 when there is
\* none, and the progresses 100, 100, 100, 50, 0 give 70.
C9_PhaseProgressIsMean ==
    ret.op = "calculatePhaseProgress" =>
        /\ IsPhaseMean(ret.value, project.tasks, ret.phase)
        /\ (project.tasks = FixtureTasks /\ ret.phase = SALES) => ret.value = 70

C9_Witness ==
    /\ ret.op = "calculatePhaseProgress"
    /\ \E i, j \in 1..Len(project.tasks) :
          /\ project.tasks[i].phase = ret.phase
          /\ project.tasks[j].phase # ret.phase
          /\ project.tasks[j].progress > 0
    /\ ret.value = 75

\* the status the rules of C10 give the tasks at positions idx
RuleStatus(tasks, idx) ==
    IF \A i \in idx : tasks[i].status = COMPLETED THEN COMPLETED
    ELSE IF \E i \in idx : tasks[i].status = IN_PROGRESS THEN IN_PROGRESS
    ELSE IF \E i \in idx : tasks[i].status = BLOCKED THEN BLOCKED
    ELSE IF \E i \in idx : tasks[i].status = COMPLETED THEN IN_PROGRESS
    ELSE NOT_STARTED

\* C10: updatePhaseStatus gives the phase the status of the first matching
\* rule (all COMPLETED; any IN_PROGRESS; any BLOCKED; any COMPLETED; else
\* NOT_STARTED), sets progress to calculatePhaseProgress and leaves every
\* other field of the phase info unchanged.
C10_PhaseStatusRules ==
    ret.op = "updatePhaseStatus" =>
        LET idx == InPhase(project.tasks, ret.arg.phase)
        IN  /\ ret.value.status = RuleStatus(project.tasks, idx)
            /\ IsPhaseMean(ret.value.progress, project.tasks, ret.arg.phase)
            /\ ret.value.progress =
                   calculatePhaseProgress(ret.arg.phase, project.tasks)
            /\ ret.value.phase = ret.arg.phase
            /\ ret.value.startDate = ret.arg.startDate
            /\ ret.value.endDate = ret.arg.endDate
            /\ ret.value.responsible = ret.arg.responsible

C10_Witness ==
    /\ ret.op = "updatePhaseStatus"
    /\ ret.arg.phase = DESIGN
    /\ ret.arg.status = IN_PROGRESS
    /\ ret.arg.progress = 70
    /\ \E i, j \in InPhase(project.tasks, DESIGN) :
          /\ project.tasks[i].status = BLOCKED
          /\ project.tasks[j].status = COMPLETED
    /\ ret.value.status = BLOCKED
    /\ ret.value.progress = 75
    /\ ret.value.startDate = 2

-----------------------------------------------------------------------------
(* Standard task generation (PhaseManager.generateStandardTasks) in full:   *)
(* ids, titles, hours and the dependency wiring                             *)

\* estimatedHours is a number of hours; the decomposer multiplies it by 0.1,
\* 0.7, 0.15 and 0.05, so hours are kept as exact fractions n / d
Hours(n) == [n |-> n, d |-> 1]
\* estimatedHours?: undefined
NoHours == [unset |-> TRUE]

Template(name, hours) == [name |-> name, estimatedHours |-> Hours(hours)]

\* PHASE_TEMPLATES; the Japanese task names are written in English
PHASE_TEMPLATES ==
    [p \in ProjectPhase |->
        CASE p = SALES ->
               << Template("customer hearing", 4),
                  Template("estimate", 8),
                  Template("presentation", 6),
                  Template("contract", 4),
                  Template("kickoff meeting", 2) >>
          [] p = DESIGN ->
               << Template("basic design", 40),
                  Template("detailed design", 80),
                  Template("drawings", 60),
                  Template("design review", 8),
                  Template("design approval", 4) >>
          [] p = MANUFACTURING ->
               << Template("material procurement", 16),
                  Template("manufacturing plan", 8),
                  Template("manufacturing", 160),
                  Template("quality inspection", 16),
                  Template("packing and shipping", 8) >>
          [] p = CONSTRUCTION ->
               << Template("site preparation", 16),
                  Template("construction", 200),
                  Template("interim inspection", 8),
                  Template("final inspection", 8),
                  Template("handover", 4),
                  Template("after-sales follow-up", 8) >>]

\* `${project.id}-${phase}-${n}`
StandardTaskId(projectId, phase, n) ==
    projectId \o "-" \o phase \o "-" \o ToString(n)

\* the dependency on the last task of the previous phase is pushed for every
\* task of a phase other than SALES (the test is on the phase, not on index)
PrevPhaseDependency(projectId, phase, index) ==
    IF phase # SALES
    THEN LET prevPhase == PHASE_ORDER[IndexOfPhase(phase) - 1]
         IN  <<StandardTaskId(projectId, prevPhase, Len(PHASE_TEMPLATES[prevPhase]))>>
    ELSE <<>>

\* an id numbered from the 0-based index
TemplateTaskIdZeroBased(projectId, phase, index) ==
    StandardTaskId(projectId, phase, index)

TemplateTaskId(projectId, phase, index) ==
    StandardTaskId(projectId, phase, index + 1)

\* the task built by one round of templates.forEach (index is 0-based)
TemplateTask(projectId, phase, index) ==
    LET template == PHASE_TEMPLATES[phase][index + 1]
    IN  [id |-> TemplateTaskId(projectId, phase, index),
         title |-> template.name,
         phase |-> phase,
         status |-> NOT_STARTED,
         priority |-> MEDIUM,
         dependencies |->
             (IF index > 0 THEN <<StandardTaskId(projectId, phase, index)>> ELSE <<>>)
             \o PrevPhaseDependency(projectId, phase, index),
         subtasks |-> <<>>,
         progress |-> 0,
         estimatedHours |-> template.estimatedHours,
         tags |-> <<phase>>]

RECURSIVE ForEachTemplate(_, _, _, _)
\* templates.forEach(...) from `index` on, pushing onto tasks
ForEachTemplate(tasks, projectId, phase, index) ==
    IF index >= Len(PHASE_TEMPLATES[phase]) THEN tasks
    ELSE ForEachTemplate(Append(tasks, TemplateTask(projectId, phase, index)),
                         projectId, phase, index + 1)

RECURSIVE ForEachPhase(_, _, _)
\* for (const phase of PHASE_ORDER) from position k on
ForEachPhase(tasks, projectId, k) ==
    IF k > Len(PHASE_ORDER) THEN tasks
    ELSE ForEachPhase(ForEachTemplate(tasks, projectId, PHASE_ORDER[k], 0),
                      projectId, k + 1)

\* generateStandardTasks(project): reads project.id only
generateStandardTasksOf(proj) == ForEachPhase(<<>>, proj.id, 1)

-----------------------------------------------------------------------------
(* TaskDecomposer *)

\* decomposeTask(parentTask, depth = 3)
DefaultDepth == 3

\* h * pct / 100, exactly
Percent(h, pct) == [n |-> h.n * pct, d |-> h.d * 100]

\* parentTask.estimatedHours || 8: undefined and 0 are falsy
HoursOr8(h) == IF h = NoHours THEN Hours(8)
               ELSE IF h.n = 0 THEN Hours(8) ELSE h

SubTemplate(title, hours) == [title |-> title, estimatedHours |-> hours]

commonTemplates(parentTask) ==
    LET title == parentTask.title
        base == HoursOr8(parentTask.estimatedHours)
    IN  << SubTemplate(title \o " - planning", Percent(base, 10)),
           SubTemplate(title \o " - execution", Percent(base, 70)),
           SubTemplate(title \o " - review and verification", Percent(base, 15)),
           SubTemplate(title \o " - completion report", Percent(base, 5)) >>

\* templates[phase]?.[title] || []
getPhaseSpecificTemplates(phase, title) ==
    CASE phase = SALES /\ title = "customer hearing" ->
           << SubTemplate("prior research", Hours(1)),
              SubTemplate("hearing", Hours(2)),
              SubTemplate("minutes", Hours(1)) >>
      [] phase = SALES /\ title = "estimate" ->
           << SubTemplate("cost calculation", Hours(3)),
              SubTemplate("margin setting", Hours(1)),
              SubTemplate("estimate draft", Hours(2)),
              SubTemplate("manager review", Hours(1)),
              SubTemplate("estimate delivery", Hours(1)) >>
      [] phase = DESIGN /\ title = "basic design" ->
           << SubTemplate("requirements", Hours(8)),
              SubTemplate("concept", Hours(12)),
              SubTemplate("basic specification", Hours(16)),
              SubTemplate("customer review", Hours(4)) >>
      [] phase = DESIGN /\ title = "detailed design" ->
           << SubTemplate("detailed specification", Hours(24)),
              SubTemplate("design calculation", Hours(16)),
              SubTemplate("specification document", Hours(32)),
              SubTemplate("technical review", Hours(8)) >>
      [] phase = MANUFACTURING /\ title = "manufacturing" ->
           << SubTemplate("material preparation", Hours(8)),
              SubTemplate("machining", Hours(80)),
              SubTemplate("assembly", Hours(40)),
              SubTemplate("adjustment", Hours(24)),
              SubTemplate("trial run", Hours(8)) >>
      [] phase = MANUFACTURING /\ title = "quality inspection" ->
           << SubTemplate("visual inspection", Hours(2)),
              SubTemplate("dimension inspection", Hours(4)),
              SubTemplate("function inspection", Hours(6)),
              SubTemplate("inspection record", Hours(2)),
              SubTemplate("defect handling", Hours(2)) >>
      [] phase = CONSTRUCTION /\ title = "construction" ->
           << SubTemplate("construction preparation", Hours(16)),
              SubTemplate("foundation work", Hours(40)),
              SubTemplate("main work", Hours(100)),
              SubTemplate("finishing work", Hours(32)),
              SubTemplate("cleaning", Hours(8)),
              SubTemplate("photo record", Hours(4)) >>
      [] phase = CONSTRUCTION /\ title = "final inspection" ->
           << SubTemplate("quality check", Hours(3)),
              SubTemplate("safety check", Hours(2)),
              SubTemplate("function test", Hours(2)),
              SubTemplate("inspection report", Hours(1)) >>
      [] OTHER -> <<>>

getSubtaskTemplates(parentTask) ==
    LET phaseSpecificTemplates ==
            getPhaseSpecificTemplates(parentTask.phase, parentTask.title)
    IN  IF Len(phaseSpecificTemplates) > 0 THEN phaseSpecificTemplates
        ELSE commonTemplates(parentTask)

derivePriority(parentPriority, index, total) ==
    IF parentPriority = CRITICAL THEN CRITICAL
    ELSE IF index = 0 THEN parentPriority
    ELSE IF index = total - 1 THEN LOW
    ELSE parentPriority

\* Array.prototype.slice(0, end): a negative end counts from the end
Slice0(s, end) ==
    LET k == IF end < 0 THEN (IF Len(s) + end < 0 THEN 0 ELSE Len(s) + end)
             ELSE Min2(end, Len(s))
    IN  SubSeq(s, 1, k)

\* the subtask built from the template at 0-based index
Subtask(parentTask, subtaskTemplates, index) ==
    LET template == subtaskTemplates[index + 1]
    IN  [id |-> parentTask.id \o "-sub-" \o ToString(index + 1),
         title |-> template.title,
         phase |-> parentTask.phase,
         status |-> NOT_STARTED,
         priority |-> derivePriority(parentTask.priority, index, Len(subtaskTemplates)),
         dependencies |->
             IF index > 0 THEN <<parentTask.id \o "-sub-" \o ToString(index)>> ELSE <<>>,
         subtasks |-> <<>>,
         progress |-> 0,
         estimatedHours |-> template.estimatedHours,
         tags |-> parentTask.tags \o <<"subtask">>]

generateSubtasks(parentTask, maxSubtasks) ==
    LET subtaskTemplates == getSubtaskTemplates(parentTask)
        used == Slice0(subtaskTemplates, maxSubtasks)
    IN  [k \in 1..Len(used) |-> Subtask(parentTask, subtaskTemplates, k - 1)]

calculateProgress(subtasks) ==
    IF Len(subtasks) = 0 THEN 0
    ELSE Round(TotalProgress(subtasks), Len(subtasks))

\* a guard that skips only a task already marked as progressing
decomposeTaskSkipByProgress(parentTask, depth) ==
    IF parentTask.progress > 0 THEN parentTask
    ELSE LET subtasks == generateSubtasks(parentTask, depth)
         IN  [parentTask EXCEPT !.subtasks = subtasks,
                                !.progress = calculateProgress(subtasks)]

decomposeTask(parentTask, depth) ==
    IF Len(parentTask.subtasks) > 0 THEN parentTask
    ELSE LET subtasks == generateSubtasks(parentTask, depth)
         IN  [parentTask EXCEPT !.subtasks = subtasks,
                                !.progress = calculateProgress(subtasks)]

\* blocked is tested after in-progress
updateParentStatusInProgressFirst(parentTask) ==
    IF Len(parentTask.subtasks) = 0 THEN parentTask
    ELSE LET subs == parentTask.subtasks
             newStatus ==
                 IF Every(subs, COMPLETED) THEN COMPLETED
                 ELSE IF Some(subs, IN_PROGRESS) THEN IN_PROGRESS
                 ELSE IF Some(subs, BLOCKED) THEN BLOCKED
                 ELSE parentTask.status
         IN  [parentTask EXCEPT !.status = newStatus,
                                !.progress = calculateProgress(subs)]

updateParentStatus(parentTask) ==
    IF Len(parentTask.subtasks) = 0 THEN parentTask
    ELSE LET subs == parentTask.subtasks
             allCompleted == Every(subs, COMPLETED)
             anyInProgress == Some(subs, IN_PROGRESS)
             anyBlocked == Some(subs, BLOCKED)
             newStatus ==
                 IF allCompleted THEN COMPLETED
                 ELSE IF anyBlocked THEN BLOCKED
                 ELSE IF anyInProgress THEN IN_PROGRESS
                 ELSE parentTask.status
         IN  [parentTask EXCEPT !.status = newStatus,
                                !.progress = calculateProgress(subs)]

RECURSIVE decomposeRecursivelyOneDeeper(_, _, _)
\* the depth test lets the level maxDepth through
decomposeRecursivelyOneDeeper(task, maxDepth, currentDepth) ==
    IF currentDepth > maxDepth THEN task
    ELSE LET decomposed == decomposeTask(task, DefaultDepth)
         IN  [decomposed EXCEPT !.subtasks =
                 [k \in 1..Len(decomposed.subtasks) |->
                     decomposeRecursivelyOneDeeper(decomposed.subtasks[k], maxDepth,
                                                   currentDepth + 1)]]

RECURSIVE decomposeRecursively(_, _, _)
decomposeRecursively(task, maxDepth, currentDepth) ==
    IF currentDepth >= maxDepth THEN task
    ELSE LET decomposed == decomposeTask(task, DefaultDepth)
         IN  [decomposed EXCEPT !.subtasks =
                 [k \in 1..Len(decomposed.subtasks) |->
                     decomposeRecursively(decomposed.subtasks[k], maxDepth,
                                          currentDepth + 1)]]

-----------------------------------------------------------------------------
(* Critical path (PhaseManager.calculateCriticalPath) *)

\* t.dependencies.includes(id)
Includes(s, x) == \E i \in 1..Len(s) : s[i] = x

RECURSIVE MapSet(_, _)
\* Map.set in a Map kept as its entries in insertion order: a key already
\* present keeps its position and takes the new value
MapSet(entries, t) ==
    IF entries = <<>> THEN <<t>>
    ELSE IF Head(entries).id = t.id THEN <<t>> \o Tail(entries)
         ELSE <<Head(entries)>> \o MapSet(Tail(entries), t)

RECURSIVE MapOf(_, _)
\* new Map(tasks.map(t => [t.id, t])), as Array.from(taskMap.values())
MapOf(entries, tasks) ==
    IF tasks = <<>> THEN entries
    ELSE MapOf(MapSet(entries, Head(tasks)), Tail(tasks))

RECURSIVE FilterDependents(_, _)
\* Array.from(taskMap.values()).filter(t => t.dependencies.includes(id))
FilterDependents(values, id) ==
    IF values = <<>> THEN <<>>
    ELSE (IF Includes(Head(values).dependencies, id) THEN <<Head(values)>> ELSE <<>>)
         \o FilterDependents(Tail(values), id)

RECURSIVE FilterRoots(_)
\* tasks.filter(t => t.dependencies.length === 0)
FilterRoots(tasks) ==
    IF tasks = <<>> THEN <<>>
    ELSE (IF Len(Head(tasks).dependencies) = 0 THEN <<Head(tasks)>> ELSE <<>>)
         \o FilterRoots(Tail(tasks))

\* a later path of the same length replaces the one kept
KeepLongerOrEqual(kept, path) == IF Len(path) >= Len(kept) THEN path ELSE kept

\* if (path.length > kept.length) kept = path
KeepLonger(kept, path) == IF Len(path) > Len(kept) THEN path ELSE kept

RECURSIVE findLongestPath(_, _)
RECURSIVE LongestAmong(_, _, _)

\* for (const depTask of dependentTasks) ... from the given list, keeping longestPath
LongestAmong(dependentTasks, values, longestPath) ==
    IF dependentTasks = <<>> THEN longestPath
    ELSE LongestAmong(Tail(dependentTasks), values,
                      KeepLonger(longestPath, findLongestPath(Head(dependentTasks), values)))

\* the task is put after the path of its dependents
findLongestPathTaskLast(task, values) ==
    LET dependentTasks == FilterDependents(values, task.id)
    IN  IF Len(dependentTasks) = 0 THEN <<task>>
        ELSE LongestAmong(dependentTasks, values, <<>>) \o <<task>>

findLongestPath(task, values) ==
    LET dependentTasks == FilterDependents(values, task.id)
    IN  IF Len(dependentTasks) = 0 THEN <<task>>
        ELSE <<task>> \o LongestAmong(dependentTasks, values, <<>>)

calculateCriticalPath(tasks) ==
    LongestAmong(FilterRoots(tasks), MapOf(<<>>, tasks), <<>>)

-----------------------------------------------------------------------------
(* Task generation and decomposition as functions of their inputs *)

\* bounds: the subtask limits passed to decomposeTask, the subtasks whose
\* states are enumerated for updateParentStatus, and the recursion depth
MaxDepthArg == 6
MaxStatusSubtasks == 3
MaxDepth == 2

\* projects handed to generateStandardTasks: the server's demo project and a
\* created one, with and without stored tasks
GenProjects ==
    { [id |-> "demo-001", tasks |-> <<>>, phases |-> DemoPhases],
      [id |-> "demo-001", tasks |-> FixtureTasks, phases |-> FreshPhases],
      [id |-> "proj-001", tasks |-> <<>>, phases |-> FreshPhases] }

DepthArgs == (-1)..MaxDepthArg

\* a task as a caller may hand it on: priority and estimatedHours set
InputTask(t, priority, keepHours) ==
    [t EXCEPT !.priority = priority,
              !.estimatedHours = IF keepHours THEN @ ELSE NoHours]

\* the SALES templates (0-based) whose tasks are given subtask states: one with
\* its own subtask template list, one with the common one
StatusInputTasks == {0, 2}

\* subtask i takes the status and progress of sample f[i]
WithSubtaskStates(task, f) ==
    [task EXCEPT !.subtasks =
        [i \in 1..Len(task.subtasks) |->
            [task.subtasks[i] EXCEPT !.status = f[i].status,
                                     !.progress = f[i].progress]]]

DecomposeInit ==
    /\ project \in GenProjects
    /\ config = [autoTransition |-> TRUE, requireApproval |-> FALSE,
                 approvers |-> NoApprovers]
    /\ pending = NoPending
    /\ ret = NoRet
    /\ now = 0
    /\ MemberIdle

\* the caller turns to another project
SelectProject(proj) ==
    /\ proj # project
    /\ ret.op \in {"none", "generateStandardTasks"}
    /\ project' = proj
    /\ UNCHANGED <<ret, config, pending, now, memberVars>>

CallGenerateStandardTasks ==
    /\ ret.op \in {"none", "generateStandardTasks"}
    /\ ret' = [op |-> "generateStandardTasks", arg |-> project,
               value |-> generateStandardTasksOf(project)]
    /\ UNCHANGED <<project, config, pending, now, memberVars>>

\* decomposeTask(task, depth), or decomposeTask(task) when useDefault
CallDecomposeTask(t, priority, keepHours, depth, useDefault) ==
    LET task == InputTask(t, priority, keepHours)
        d == IF useDefault THEN DefaultDepth ELSE depth
    IN  /\ ret = NoRet
        /\ useDefault => depth = DefaultDepth
        /\ ret' = [op |-> "decomposeTask", pass |-> 1, arg |-> task,
                   depth |-> d, useDefault |-> useDefault, firstDepth |-> d,
                   value |-> decomposeTask(task, d)]
        /\ UNCHANGED <<project, config, pending, now, memberVars>>

\* the result of a decomposeTask call is decomposed again
CallDecomposeTaskAgain(depth) ==
    /\ ret.op = "decomposeTask"
    /\ ret.pass = 1
    /\ ret' = [op |-> "decomposeTask", pass |-> 2, arg |-> ret.value,
               depth |-> depth, useDefault |-> FALSE, firstDepth |-> ret.depth,
               value |-> decomposeTask(ret.value, depth)]
    /\ UNCHANGED <<project, config, pending, now, memberVars>>

CallUpdateParentStatus(parent, status, f) ==
    LET task == WithSubtaskStates([parent EXCEPT !.status = status], f)
    IN  /\ ret = NoRet
        /\ ret' = [op |-> "updateParentStatus", arg |-> task,
                   value |-> updateParentStatus(task)]
        /\ UNCHANGED <<project, config, pending, now, memberVars>>

\* decomposeRecursively(task, maxDepth)
CallDecomposeRecursively(task, maxDepth) ==
    /\ ret = NoRet
    /\ ret' = [op |-> "decomposeRecursively", arg |-> task,
               maxDepth |-> maxDepth,
               value |-> decomposeRecursively(task, maxDepth, 0)]
    /\ UNCHANGED <<project, config, pending, now, memberVars>>

\* each call is made on a task of the project's generated list; updateParentStatus
\* and decomposeRecursively also on such a task already decomposed
DecomposeNext ==
    \/ \E proj \in GenProjects : SelectProject(proj)
    \/ CallGenerateStandardTasks
    \/ /\ ret = NoRet
       /\ LET std == generateStandardTasksOf(project)
          IN  \E k \in 1..Len(std), priority \in TaskPriority, keepHours \in BOOLEAN,
                 depth \in DepthArgs, useDefault \in BOOLEAN :
                 CallDecomposeTask(std[k], priority, keepHours, depth, useDefault)
    \/ \E depth \in DepthArgs : CallDecomposeTaskAgain(depth)
    \/ /\ ret = NoRet
       /\ \E index \in StatusInputTasks, n \in 0..MaxStatusSubtasks, status \in TaskStatus :
             LET parent == decomposeTask(TemplateTask(project.id, SALES, index), n)
             IN  \E f \in [1..Len(parent.subtasks) -> TaskSamples] :
                    CallUpdateParentStatus(parent, status, f)
    \/ /\ ret = NoRet
       /\ LET std == generateStandardTasksOf(project)
          IN  \E k \in 1..Len(std), first \in {0, 2}, maxDepth \in 0..MaxDepth :
                 CallDecomposeRecursively(decomposeTask(std[k], first), maxDepth)

SpecDecompose == DecomposeInit /\ [][DecomposeNext]_vars

-----------------------------------------------------------------------------
(* C11 - C12: generateStandardTasks *)

ToSet(s) == {s[i] : i \in 1..Len(s)}

\* task k is the first task of its phase in the list v
FirstOfPhase(v, k) == k = 1 \/ v[k - 1].phase # v[k].phase

\* 1-based position of task k among the tasks of its phase
IndexInPhase(v, k) == Cardinality({j \in 1..k : v[j].phase = v[k].phase})

\* C11: in the list generateStandardTasks returns, the dependencies of a task
\* are exactly the preceding task of its phase (when it is not the first of
\* its phase) plus, only for the first task of a phase other than SALES, the
\* last task of the preceding phase; no other task depends on a task outside
\* its phase.
C11_DependencyWiring ==
    ret.op = "generateStandardTasks" =>
        LET v == ret.value
        IN  \A k \in 1..Len(v) :
               /\ ToSet(v[k].dependencies) =
                     (IF FirstOfPhase(v, k) THEN {} ELSE {v[k - 1].id})
                     \cup (IF FirstOfPhase(v, k) /\ v[k].phase # SALES
                           THEN {v[k - 1].id} ELSE {})
               /\ Len(v[k].dependencies) = Cardinality(ToSet(v[k].dependencies))

\* the ids and the dependency lists of a generated list
Wiring(v) == [k \in 1..Len(v) |-> <<v[k].id, v[k].dependencies>>]

\* C12: generateStandardTasks returns the tasks in phase order and template
\* order, the i-th task of a phase has id {projectId}-{phase}-{i}, the project
\* passed in is not modified, and two successive calls with the same project
\* id (whatever else the projects hold) return the same ids and dependencies.
C12_GenerationDeterministic ==
    [][ret'.op = "generateStandardTasks" /\ ret' # ret =>
          LET v == ret'.value
          IN  /\ project' = project
              /\ ret'.arg = project
              /\ Len(v) = SumSeq([i \in 1..Len(PHASE_ORDER) |->
                                      Len(PHASE_TEMPLATES[PHASE_ORDER[i]])])
              /\ \A k \in 1..Len(v) :
                    /\ k > 1 => IndexOfPhase(v[k - 1].phase) <= IndexOfPhase(v[k].phase)
                    /\ v[k].title = PHASE_TEMPLATES[v[k].phase][IndexInPhase(v, k)].name
                    /\ v[k].id = project.id \o "-" \o v[k].phase \o "-"
                                    \o ToString(IndexInPhase(v, k))
              /\ (ret.op = "generateStandardTasks" /\ ret.arg.id = ret'.arg.id) =>
                    Wiring(ret.value) = Wiring(v)]_vars

\* generateStandardTasks has returned for the project that holds stored tasks
C12_Witness ==
    /\ ret.op = "generateStandardTasks"
    /\ ret.arg.tasks # <<>>
    /\ ret.arg.id = "demo-001"
    /\ Len(ret.value) = 21
    /\ ret.value[6].id = "demo-001-design-1"
    /\ ret.value[21].id = "demo-001-construction-6"

-----------------------------------------------------------------------------
(* C13 - C16, C18: TaskDecomposer *)

\* C13 as stated: decomposeTask returns a task that has a subtask unchanged,
\* and decomposing a task twice gives the subtasks and the progress of
\* decomposing it once, for every task and every second argument.
C13_DecomposeTwiceSame ==
    ret.op = "decomposeTask" =>
        /\ Len(ret.arg.subtasks) > 0 => ret.value = ret.arg
        /\ ret.pass = 2 =>
              /\ ret.value.subtasks = ret.arg.subtasks
              /\ ret.value.progress = ret.arg.progress

\* C13 amended: decomposeTask returns a task that has a subtask unchanged,
\* and decomposing a task twice gives the subtasks and the progress of
\* decomposing it once whenever the first call's limit is at least 1,
\* whatever the second call's limit.
C13_DecomposeIdempotent ==
    ret.op = "decomposeTask" =>
        /\ Len(ret.arg.subtasks) > 0 => ret.value = ret.arg
        /\ (ret.pass = 2 /\ ret.firstDepth >= 1) =>
              /\ Len(ret.arg.subtasks) > 0
              /\ ret.value.subtasks = ret.arg.subtasks
              /\ ret.value.progress = ret.arg.progress

\* a second decomposition with a larger limit than the first
C13_Witness ==
    /\ ret.op = "decomposeTask"
    /\ ret.pass = 2
    /\ ret.firstDepth = 2
    /\ ret.depth = 5
    /\ Len(ret.value.subtasks) = 2
    /\ ret.arg.title = "estimate"

\* C14: for a task without subtasks and without a template list of its own,
\* decomposeTask called with the limit the server passes (3) or with its
\* default produces the 4 subtasks planning, execution, review/verification,
\* completion report, with 10%, 70%, 15% and 5% of the parent's estimate (of 8
\* hours when it is unset).
C14_GenericDecomposition ==
    (/\ ret.op = "decomposeTask"
     /\ ret.pass = 1
     /\ getPhaseSpecificTemplates(ret.arg.phase, ret.arg.title) = <<>>
     /\ (ret.useDefault \/ ret.depth = 3)) =>
        LET subs == ret.value.subtasks
            base == IF ret.arg.estimatedHours = NoHours THEN Hours(8)
                    ELSE ret.arg.estimatedHours
        IN  /\ Len(subs) = 4
            /\ subs[1].title = ret.arg.title \o " - planning"
            /\ subs[2].title = ret.arg.title \o " - execution"
            /\ subs[3].title = ret.arg.title \o " - review and verification"
            /\ subs[4].title = ret.arg.title \o " - completion report"
            /\ \A i \in 1..4 :
                  100 * subs[i].estimatedHours.n * base.d =
                      <<10, 70, 15, 5>>[i] * base.n * subs[i].estimatedHours.d

\* C15: in the subtasks decomposeTask produces, all are CRITICAL when the
\* parent is; otherwise the last produced subtask is LOW and every other one
\* has the parent's priority, for every template list and every limit.
C15_SubtaskPriorities ==
    (ret.op = "decomposeTask" /\ ret.pass = 1) =>
        LET subs == ret.value.subtasks
        IN  \A i \in 1..Len(subs) :
               subs[i].priority =
                   IF ret.arg.priority = CRITICAL THEN CRITICAL
                   ELSE IF i = Len(subs) THEN LOW
                   ELSE ret.arg.priority

StatusesOf(subs) == {subs[i].status : i \in 1..Len(subs)}

\* C16: updateParentStatus on a task with subtasks sets the status COMPLETED
\* if all subtasks are COMPLETED, else BLOCKED if any is BLOCKED, else
\* IN_PROGRESS if any is IN_PROGRESS, else leaves it; a task without subtasks
\* is returned unchanged.
C16_ParentStatusRules ==
    ret.op = "updateParentStatus" =>
        IF ret.arg.subtasks = <<>> THEN ret.value = ret.arg
        ELSE LET st == StatusesOf(ret.arg.subtasks)
             IN  ret.value.status =
                    CASE st = {COMPLETED} -> COMPLETED
                      [] st # {COMPLETED} /\ BLOCKED \in st -> BLOCKED
                      [] st # {COMPLETED} /\ BLOCKED \notin st /\ IN_PROGRESS \in st
                            -> IN_PROGRESS
                      [] OTHER -> ret.arg.status

\* a parent with a blocked and an in-progress subtask becomes BLOCKED
C16_Witness ==
    /\ ret.op = "updateParentStatus"
    /\ ret.arg.status = COMPLETED
    /\ Len(ret.arg.subtasks) = 3
    /\ ret.arg.subtasks[1].status = IN_PROGRESS
    /\ ret.arg.subtasks[2].status = COMPLETED
    /\ ret.arg.subtasks[3].status = BLOCKED
    /\ ret.value.status = BLOCKED

RECURSIVE NestingDepth(_)
\* levels of subtasks below a task
NestingDepth(task) ==
    IF task.subtasks = <<>> THEN 0
    ELSE 1 + CHOOSE m \in {NestingDepth(task.subtasks[i]) : i \in 1..Len(task.subtasks)} :
                 \A i \in 1..Len(task.subtasks) : NestingDepth(task.subtasks[i]) <= m

\* C18: decomposeRecursively(task, maxDepth) returns for every maxDepth >= 0;
\* with maxDepth 0 it returns the task as it is; for a task without subtasks
\* the returned tree is nested at most maxDepth levels deep.
C18_RecursionBounded ==
    ret.op = "decomposeRecursively" =>
        /\ ret.maxDepth = 0 => ret.value = ret.arg
        /\ ret.arg.subtasks = <<>> => NestingDepth(ret.value) <= ret.maxDepth

\* a task without subtasks decomposed to the full depth
C18_Witness ==
    /\ ret.op = "decomposeRecursively"
    /\ ret.arg.subtasks = <<>>
    /\ ret.maxDepth = MaxDepth
    /\ NestingDepth(ret.value) = MaxDepth

-----------------------------------------------------------------------------
(* Critical path as a function of the task list *)

\* bound: the number of tasks in a list handed to calculateCriticalPath
MaxPathTasks == 4

PathIds == <<"A", "B", "C", "D", "E", "F">>

\* a task as calculateCriticalPath reads it (id and dependencies); the task
\* that comes first in the list carries by far the most hours
PathTask(id, dependencies, hours) ==
    [id |-> id, dependencies |-> dependencies, estimatedHours |-> Hours(hours)]

\* A, B depends on A, C on B, D on C
ChainTasks ==
    << PathTask("A", <<>>, 1), PathTask("B", <<"A">>, 100),
       PathTask("C", <<"B">>, 1), PathTask("D", <<"C">>, 1) >>

Permutations4 == {p \in [1..4 -> 1..4] : \A i, j \in 1..4 : i # j => p[i] # p[j]}

PositionOf(tasks, id) == CHOOSE i \in 1..Len(tasks) : tasks[i].id = id

RECURSIVE DependsOn(_, _, _, _)
\* task i depends on task j through at most `fuel` dependency hops
DependsOn(tasks, i, j, fuel) ==
    /\ fuel > 0
    /\ \/ Includes(tasks[i].dependencies, tasks[j].id)
       \/ \E k \in 1..Len(tasks) :
             /\ Includes(tasks[i].dependencies, tasks[k].id)
             /\ DependsOn(tasks, k, j, fuel - 1)

PathInit ==
    /\ project \in {[tasks |-> <<>>]}
                   \cup {[tasks |-> [i \in 1..4 |-> ChainTasks[p[i]]]] : p \in Permutations4}
    /\ config = [autoTransition |-> TRUE, requireApproval |-> FALSE,
                 approvers |-> NoApprovers]
    /\ pending = NoPending
    /\ ret = NoRet
    /\ now = 0
    /\ MemberIdle

\* the caller adds a task without dependencies under the first id not yet in
\* the list
PathAddTask ==
    LET used == {project.tasks[i].id : i \in 1..Len(project.tasks)}
        k == CHOOSE k \in 1..Len(PathIds) :
                 PathIds[k] \notin used /\ \A h \in 1..(k - 1) : PathIds[h] \in used
    IN  /\ ret = NoRet
        /\ Len(project.tasks) < MaxPathTasks
        /\ project' = [project EXCEPT !.tasks =
                          Append(@, PathTask(PathIds[k], <<>>,
                                             IF @ = <<>> THEN 100 ELSE 1))]
        /\ UNCHANGED <<ret, config, pending, now, memberVars>>

\* the caller makes task i depend on task j; task sets stay acyclic and a
\* task lists its dependencies in the order of the task list
PathAddDependency(i, j) ==
    LET tasks == project.tasks
    IN  /\ ret = NoRet
        /\ i # j
        /\ ~DependsOn(tasks, j, i, Len(tasks))
        /\ \A k \in 1..Len(tasks) :
              Includes(tasks[i].dependencies, tasks[k].id) => k < j
        /\ project' = [project EXCEPT !.tasks[i].dependencies = Append(@, tasks[j].id)]
        /\ UNCHANGED <<ret, config, pending, now, memberVars>>

CallCalculateCriticalPath ==
    /\ ret = NoRet
    /\ ret' = [op |-> "calculateCriticalPath",
               value |-> calculateCriticalPath(project.tasks)]
    /\ UNCHANGED <<project, config, pending, now, memberVars>>

PathNext ==
    \/ PathAddTask
    \/ \E i, j \in 1..Len(project.tasks) : PathAddDependency(i, j)
    \/ CallCalculateCriticalPath

SpecPath == PathInit /\ [][PathNext]_vars

-----------------------------------------------------------------------------
(* C19 - C20: critical path *)

IdsOf(s) == [i \in 1..Len(s) |-> s[i].id]

\* C19: for the chain A, B (on A), C (on B), D (on C), given in any order,
\* calculateCriticalPath returns [A, B, C, D].
C19_ChainIsCriticalPath ==
    (/\ ret.op = "calculateCriticalPath"
     /\ Len(project.tasks) = 4
     /\ ToSet(project.tasks) = ToSet(ChainTasks)) =>
        IdsOf(ret.value) = <<"A", "B", "C", "D">>

\* the chain handed over in the order D, C, B, A
C19_Witness ==
    /\ ret.op = "calculateCriticalPath"
    /\ IdsOf(project.tasks) = <<"D", "C", "B", "A">>
    /\ project.tasks[4].dependencies = <<>>
    /\ project.tasks[1].dependencies = <<"C">>
    /\ Len(ret.value) = 4

RECURSIVE ChainsOfLength(_, _)
\* the chains of k tasks (as list positions) that start at a task without
\* dependencies and in which each task lists its predecessor as a dependency
ChainsOfLength(tasks, k) ==
    IF k = 1
    THEN {<<i>> : i \in {i \in 1..Len(tasks) : tasks[i].dependencies = <<>>}}
    ELSE {Append(c, j) : c \in ChainsOfLength(tasks, k - 1),
                         j \in 1..Len(tasks)}
         \cap {c \in [1..k -> 1..Len(tasks)] :
                  Includes(tasks[c[k]].dependencies, tasks[c[k - 1]].id)}

AllChains(tasks) == UNION {ChainsOfLength(tasks, k) : k \in 1..Len(tasks)}

\* c comes before d when, at the first position where they differ, c takes
\* the task that is earlier in the list
EncounteredBefore(c, d) ==
    \E i \in 1..Len(c) :
        /\ \A h \in 1..(i - 1) : c[h] = d[h]
        /\ c[i] < d[i]

\* C20: for an acyclic task set whose dependencies name existing tasks,
\* calculateCriticalPath returns a chain from a task without dependencies in
\* which each task lists its predecessor as a dependency; no such chain has
\* more tasks (hours play no part); among the chains of that many tasks it is
\* the first in task-list order; it is empty when no task has zero
\* dependencies.
C20_LongestChainFirst ==
    ret.op = "calculateCriticalPath" =>
        LET tasks == project.tasks
            chains == AllChains(tasks)
            v == ret.value
        IN  IF chains = {} THEN v = <<>>
            ELSE LET c == [i \in 1..Len(v) |-> PositionOf(tasks, v[i].id)]
                 IN  /\ \A i \in 1..Len(v) : v[i] \in ToSet(tasks)
                     /\ c \in chains
                     /\ \A d \in chains :
                           /\ Len(d) <= Len(c)
                           /\ Len(d) = Len(c) => ~EncounteredBefore(d, c)

\* two chains of two tasks: the path keeps the one whose tasks come first in
\* the list, and the single task with the most hours is left out
C20_Witness ==
    /\ ret.op = "calculateCriticalPath"
    /\ Len(project.tasks) = 4
    /\ project.tasks[1].dependencies = <<>>
    /\ project.tasks[2].dependencies = <<>>
    /\ project.tasks[3].dependencies = <<"B">>
    /\ project.tasks[4].dependencies = <<"B">>
    /\ IdsOf(ret.value) = <<"B", "C">>

-----------------------------------------------------------------------------
(* The server's demo project: generation, decomposition, seeding, updates *)

\* bound: the number of tasks that clients have updated since the seeding
MaxUpdatedTasks == 2

\* obj.field = value for the fields of `extra` (fields are added when missing)
Assign(obj, extra) ==
    [f \in DOMAIN obj \cup DOMAIN extra |->
        IF f \in DOMAIN extra THEN extra[f] ELSE obj[f]]

\* demoProject.tasks after generateStandardTasks and map(decomposeTask(task, 3))
DemoGeneratedTasks ==
    LET proj == [id |-> "demo-001", tasks |-> <<>>, phases |-> DemoPhases]
        tasks == generateStandardTasksOf(proj)
    IN  [k \in 1..Len(tasks) |-> decomposeTask(tasks[k], 3)]

\* task and its subtasks marked completed for the assignee
SeedCompleted(task, assignee) ==
    [task EXCEPT !.subtasks =
        [i \in 1..Len(task.subtasks) |->
            Assign(task.subtasks[i],
                   [status |-> COMPLETED, progress |-> 100, assignee |-> assignee])]]

\* days from the project start to the due date of a phase's tasks
daysFromStart(phase) ==
    CASE phase = SALES -> 15
      [] phase = DESIGN -> 60
      [] phase = MANUFACTURING -> 120
      [] phase = CONSTRUCTION -> 180

\* one round of the progress simulation: demoProject.tasks.forEach(task => ...)
SeedTask(tasks, k) ==
    LET task == tasks[k]
        \* designTasks.indexOf(task)
        index == Cardinality({j \in 1..(k - 1) : tasks[j].phase = DESIGN})
        seeded ==
            IF task.phase = SALES
            THEN Assign(SeedCompleted(task, "Yamada"),
                        [status |-> COMPLETED, progress |-> 100,
                         assignee |-> "Yamada", completedDate |-> 2])
            ELSE IF task.phase = DESIGN /\ index < 3
            THEN Assign(SeedCompleted(task, "Sato"),
                        [status |-> COMPLETED, progress |-> 100, assignee |-> "Sato"])
            ELSE IF task.phase = DESIGN /\ index = 3
            THEN Assign(task, [status |-> IN_PROGRESS, progress |-> 50,
                               assignee |-> "Sato"])
            ELSE task
    IN  Assign(seeded, [dueDate |-> daysFromStart(task.phase)])

SeededTasks(tasks) == [k \in 1..Len(tasks) |-> SeedTask(tasks, k)]

\* demoProject.tasks when initializeDemoProject returns
DemoSeededTasks == SeededTasks(DemoGeneratedTasks)

\* initializeDemoProject after its task generation and decomposition
ServerInit ==
    /\ project = [id |-> "demo-001", tasks |-> DemoGeneratedTasks, phases |-> DemoPhases]
    /\ config = [autoTransition |-> TRUE, requireApproval |-> FALSE,
                 approvers |-> NoApprovers]
    /\ pending = NoPending
    /\ ret = NoRet
    /\ now = 0
    /\ MemberIdle

\* the progress simulation of initializeDemoProject, up to its return
SeedProgress ==
    /\ ret = NoRet
    /\ project' = [project EXCEPT !.tasks = SeededTasks(@)]
    /\ ret' = [op |-> "initializeDemoProject"]
    /\ UNCHANGED <<config, pending, now, memberVars>>

\* a PUT request once the server listens
ServerPutTask(taskIndex, body) ==
    LET updated == {i \in 1..Len(DemoSeededTasks) :
                       project.tasks[i] # DemoSeededTasks[i]}
    IN  /\ ret # NoRet
        /\ Cardinality(updated \cup {taskIndex}) <= MaxUpdatedTasks
        /\ PutTask(taskIndex, body)

ServerNext ==
    \/ SeedProgress
    \/ \E k \in 1..Len(project.tasks), body \in AutoBodies : ServerPutTask(k, body)

SpecServer == ServerInit /\ [][ServerNext]_vars

-----------------------------------------------------------------------------
(* C17: progress rollup *)

\* C17: in every state of the demo project reached from its generated and
\* decomposed tasks by the seeding and by task updates, a task that has
\* subtasks has the progress round(mean of its subtasks' progress) (so
\* progress is set directly only on tasks without subtasks).
C17_ProgressRollup ==
    \A k \in 1..Len(project.tasks) :
        LET task == project.tasks[k]
        IN  task.subtasks # <<>> =>
               IsRoundedMean(task.progress, TotalProgress(task.subtasks),
                             Len(task.subtasks))

-----------------------------------------------------------------------------
(* C26: task updates interleaved with a pending approval *)

\* the steps that stamp a start date are the only ones that advance the clock
StampsStartDate == now' # now

\* C26 as stated: whenever transitionToNextPhase returns success = true,
\* every task of the current phase is COMPLETED at the moment the target
\* phase's start date is stamped, also when a task update was handled while
\* the approval callback was pending.
C26_CompletedWhenStamped ==
    [][ StampsStartDate => ~ HasOpenTask(project.tasks, ret'.currentPhase) ]_vars

\* no request was handled since the call began to wait for its approval
\* callback (every handled request leaves its response in ret)
NoUpdateSinceCall == pending.active => ret = NoRet

\* C26 amended: whenever transitionToNextPhase returns success = true and no
\* task update on the project was handled while the approval callback was
\* pending, every task of the current phase is COMPLETED at the moment the
\* target phase's start date is stamped.
C26_CompletedWhenStampedSerialized ==
    [][ (StampsStartDate /\ NoUpdateSinceCall)
        => ~ HasOpenTask(project.tasks, ret'.currentPhase) ]_vars

C26_Witness ==
    /\ IsTransitionReturn(ret)
    /\ ret.success
    /\ ret.callback.invoked
    /\ ret.callback.returned = "true"
    /\ \E i \in 1..Len(project.tasks) : project.tasks[i].phase = ret.currentPhase
    /\ ~ HasOpenTask(project.tasks, ret.currentPhase)
    /\ project.phases[ret.nextPhase].startDate = now

-----------------------------------------------------------------------------
(* C22, C23, C27, C28: assignment bookkeeping of the MemberManager *)

\* the step is a call of the named MemberManager operation (a call that
\* changes nothing and repeats the previous call is a stuttering step)
IsMemberCall(opName) ==
    /\ mret'.op = opName
    /\ <<members, taskPool, teams, mret>>' # <<members, taskPool, teams, mret>>

TaskIndex(taskId) == CHOOSE k \in 1..Len(taskPool) : taskPool[k].id = taskId

Occurrences(s, x) == Cardinality({j \in 1..Len(s) : s[j] = x})

AssignedTo(taskId) ==
    {i \in 1..Len(members) : Occurrences(members[i].assignedTasks, taskId) > 0}

\* C27: after any sequence of assignTaskToMember, unassignTaskFromMember and
\* balanceLoad calls the task-side and member-side records agree: a task's
\* assigneeId is member m exactly when the task's id is in m.assignedTasks,
\* and each task id is in the assignedTasks of at most one member, at most
\* once.
C27_RecordsAgree ==
    \A k \in 1..Len(taskPool) :
        /\ \A i \in 1..Len(members) :
              (taskPool[k].assigneeId = members[i].id)
                 <=> (i \in AssignedTo(taskPool[k].id))
        /\ Cardinality(AssignedTo(taskPool[k].id)) <= 1
        /\ \A i \in 1..Len(members) :
              Occurrences(members[i].assignedTasks, taskPool[k].id) <= 1

\* the increase of each member's currentLoad over the step
LoadRaisedBy(i) == members'[i].currentLoad - members[i].currentLoad

\* the hours of the tasks the returned map lists under the member
RECURSIVE HoursAssigned(_, _)
HoursAssigned(assignments, memberId) ==
    IF assignments = <<>> THEN 0
    ELSE (IF Head(assignments)[1] = memberId
          THEN taskPool[TaskIndex(Head(assignments)[2])].estimatedHours
          ELSE 0) + HoursAssigned(Tail(assignments), memberId)

\* C23: during one balanceLoad pass every assignment raises the currentLoad
\* of exactly one member (the one the returned map lists the task under) by
\* exactly the task's estimatedHours (0 if unset), and no task id is assigned
\* more than once: no id occurs twice in the returned map, and none occurs
\* twice in a member's assignedTasks as a result of the pass.
C23_BalanceLoadAssignsOnce ==
    [][ IsMemberCall("balanceLoad")
        => LET assigned == mret'.value
           IN  /\ \A i \in 1..Len(members) :
                     LoadRaisedBy(i) = HoursAssigned(assigned, members[i].id)
               /\ \A a, b \in 1..Len(assigned) :
                     assigned[a][2] = assigned[b][2] => a = b
               /\ \A i \in 1..Len(members), k \in 1..Len(taskPool) :
                     Occurrences(members'[i].assignedTasks, taskPool[k].id) > 1
                       => Occurrences(members'[i].assignedTasks, taskPool[k].id)
                            = Occurrences(members[i].assignedTasks, taskPool[k].id)
      ]_vars

\* C28: a second balanceLoad on the same task list, with no other operation
\* in between, assigns nothing for every roster: the returned map is empty
\* and no member's currentLoad or assignedTasks changes.
C28_SecondPassAssignsNothing ==
    [][ (IsMemberCall("balanceLoad") /\ mret.op = "balanceLoad")
        => /\ mret'.value = <<>>
           /\ members' = members
      ]_vars

-----------------------------------------------------------------------------
(* Scoring and recommendation over members of every skill set and load *)

\* bound of the scoring model: the largest currentLoad a member starts with
MaxScoreLoad == 21

\* 0 is what updateMemberAvailability(memberId, 0) leaves
ScoreAvailabilities == {0, 8, 20}

\* a member as addMember registers it, with the load it carries
LoadedMember(id, name, skills, availability, load) ==
    [Mk(id, name, skills, availability) EXCEPT !.currentLoad = load]

\* the colleague registered after the member under study: one without a
\* skill at full load, or one idle with three skills
Colleagues ==
    { LoadedMember("m2", "Sato", {}, 40, 40),
      LoadedMember("m2", "Sato", {SK_SALES, SK_DESIGN, SK_QUALITY_ASSURANCE}, 40, 0) }

ScoreRosters ==
    { << LoadedMember("m1", "Yamada", skills, availability, load), colleague >> :
         skills \in SUBSET MemberSkill, availability \in ScoreAvailabilities,
         load \in 0..MaxScoreLoad, colleague \in Colleagues }

ScorePools ==
    { << MkTask("t1", phase, priority, 4), MkTask("t2", DESIGN, LOW, 8) >> :
         phase \in ProjectPhase, priority \in {MEDIUM, CRITICAL} }

\* recommendMembersForTask's topN: 1 (balanceLoad), 2, and the default 3
TopNArgs == {1, 2, 3}

ScoreInit ==
    /\ members \in ScoreRosters
    /\ taskPool \in ScorePools
    /\ teams = <<>>
    /\ larkClient = None
    /\ mret = NoCall
    /\ ProjectIdle

\* the score recommendMembersForTask computes for one member
CallCalculateAssignmentScore(i, k) ==
    /\ mret' = [op |-> "calculateAssignmentScore", member |-> i,
                taskId |-> taskPool[k].id,
                value |-> calculateAssignmentScore(members[i], taskPool[k],
                              getRequiredSkillsForPhase(taskPool[k].phase))]
    /\ UNCHANGED <<members, taskPool, teams, larkClient, projectVars>>

CallRecommendMembersForTask(k, topN) ==
    /\ mret' = [op |-> "recommendMembersForTask", taskId |-> taskPool[k].id,
                topN |-> topN,
                value |-> recommendMembersForTask(members, taskPool[k], topN)]
    /\ UNCHANGED <<members, taskPool, teams, larkClient, projectVars>>

ScoreNext ==
    /\ mret = NoCall
    /\ \/ \E i \in 1..Len(members), k \in 1..Len(taskPool) :
             CallCalculateAssignmentScore(i, k)
       \/ \E k \in 1..Len(taskPool), topN \in TopNArgs :
             CallRecommendMembersForTask(k, topN)
       \/ balanceLoad

SpecScore == ScoreInit /\ [][ScoreNext]_vars

-----------------------------------------------------------------------------
(* C21, C29: assignment scores *)

MatchingSkills(member, task) ==
    member.skills \cap getRequiredSkillsForPhase(task.phase)

Listed(recs) == {recs[j][1] : j \in 1..Len(recs)}

\* the entries of a balanceLoad result for the tasks before the k-th
RECURSIVE AssignedBefore(_, _)
AssignedBefore(assignments, k) ==
    IF assignments = <<>> THEN <<>>
    ELSE IF TaskIndex(Head(assignments)[2]) < k
         THEN <<Head(assignments)>> \o AssignedBefore(Tail(assignments), k)
         ELSE AssignedBefore(Tail(assignments), k)

\* member i as it is when the pass reaches the k-th task: with the hours of
\* the tasks the pass gave it before
WhenProcessed(i, k, assignments) ==
    [members[i] EXCEPT !.currentLoad =
        @ + HoursAssigned(AssignedBefore(assignments, k), members[i].id)]

TasksAssigned(assignments) == {assignments[j][2] : j \in 1..Len(assignments)}

\* C29: a member with at least one of the two skills required for a task's
\* phase scores at least 25 for it, however far its currentLoad exceeds its
\* availability, and so the score filter never removes it:
\* recommendMembersForTask lists it unless topN other members fill the list,
\* and balanceLoad leaves an unassigned task unassigned only if every
\* member's score for it is 0 at the moment the task is processed.
C29_SkilledMemberNeverExcluded ==
    [][ /\ IsMemberCall("calculateAssignmentScore")
           => ( MatchingSkills(members[mret'.member],
                               taskPool[TaskIndex(mret'.taskId)]) # {}
                => mret'.value >= 25 )
        /\ IsMemberCall("recommendMembersForTask")
           => \A i \in 1..Len(members) :
                 MatchingSkills(members[i], taskPool[TaskIndex(mret'.taskId)]) # {}
                 => \/ i \in Listed(mret'.value)
                    \/ Len(mret'.value) = mret'.topN
        /\ IsMemberCall("balanceLoad")
           => \A k \in 1..Len(taskPool) :
                 ( /\ Falsy(taskPool[k].assignee)
                   /\ taskPool[k].id \notin TasksAssigned(mret'.value) )
                 => \A i \in 1..Len(members) :
                       calculateAssignmentScore(
                           WhenProcessed(i, k, mret'.value), taskPool[k],
                           getRequiredSkillsForPhase(taskPool[k].phase)) = 0
      ]_vars

-----------------------------------------------------------------------------
(* The roster, the teams and the id lookups *)

\* what larkClient.getAllMembers() resolves to: users with a title, the
\* title given as the set of keywords its lower-case form contains
LarkUser(userId, name, title) == [userId |-> userId, name |-> name, title |-> title]

LarkDirectories ==
    { << LarkUser("m1", "Yamada", {"sales", "manager"}),
         LarkUser("m3", "Suzuki", {"qa", "engineer"}) >>,
      << LarkUser("m3", "Suzuki", {}) >> }

\* inferSkillsFromTitle: no skill for a missing or empty title, and one
\* skill per group of keywords otherwise
inferSkillsFromTitle(title) ==
    IF title = {} THEN {}
    ELSE (IF title \cap {"sales"} # {} THEN {SK_SALES} ELSE {})
         \cup (IF title \cap {"design", "architect"} # {} THEN {SK_DESIGN} ELSE {})
         \cup (IF title \cap {"manufacturing", "engineer"} # {}
               THEN {SK_MANUFACTURING} ELSE {})
         \cup (IF title \cap {"construction"} # {} THEN {SK_CONSTRUCTION} ELSE {})
         \cup (IF title \cap {"pm", "project manager", "manager"} # {}
               THEN {SK_PROJECT_MANAGEMENT} ELSE {})
         \cup (IF title \cap {"qa", "quality"} # {}
               THEN {SK_QUALITY_ASSURANCE} ELSE {})

\* the Member syncMembersFromLark builds for a user
SyncedMember(larkMember) ==
    Mk(larkMember.userId, larkMember.name,
       inferSkillsFromTitle(larkMember.title), 40)

IndexIn(entries, id) ==
    IF \E i \in 1..Len(entries) : entries[i].id = id
    THEN CHOOSE i \in 1..Len(entries) : entries[i].id = id
    ELSE 0

\* Map.prototype.set: a known key keeps its place and gets the new value, a
\* new key goes last
SetEntry(entries, entry) ==
    IF IndexIn(entries, entry.id) # 0
    THEN [entries EXCEPT ![IndexIn(entries, entry.id)] = entry]
    ELSE Append(entries, entry)

\* a team lists Member objects: the object registered under the id, or, once
\* members.set has put another object under that id, the object it was given
TeamMember(memberId) == [id |-> memberId, detached |-> <<>>]

Detached(ts, old) ==
    [t \in 1..Len(ts) |->
        [ts[t] EXCEPT !.members =
            [j \in 1..Len(@) |->
                IF @[j].id = old.id /\ @[j].detached = <<>>
                THEN [@[j] EXCEPT !.detached = <<old>>]
                ELSE @[j]]]]

\* this.members.set(member.id, member), seen from the members and the teams
Registered(st, member) ==
    LET i == IndexIn(st.members, member.id)
    IN  [members |-> SetEntry(st.members, member),
         teams |-> IF i = 0 THEN st.teams ELSE Detached(st.teams, st.members[i])]

RECURSIVE RegisteredAll(_, _)
RegisteredAll(st, newMembers) ==
    IF newMembers = <<>> THEN st
    ELSE RegisteredAll(Registered(st, Head(newMembers)), Tail(newMembers))

\* the calls explored on a roster: assignments and team set-up first, and any
\* one call or request on the state they leave
Arranging ==
    /\ ret = NoRet
    /\ mret.op \in {"none", "assignTaskToMember", "createTeam", "addMemberToTeam"}

syncMembersFromLark(directory) ==
    /\ IF larkClient = None
       THEN /\ mret' = [op |-> "syncMembersFromLark", threw |-> TRUE]
            /\ UNCHANGED <<members, teams>>
       ELSE LET synced == [j \in 1..Len(directory) |-> SyncedMember(directory[j])]
                st == RegisteredAll([members |-> members, teams |-> teams], synced)
            IN  /\ members' = st.members
                /\ teams' = st.teams
                /\ mret' = [op |-> "syncMembersFromLark", threw |-> FALSE,
                            value |-> synced]
    /\ UNCHANGED <<taskPool, larkClient, projectVars>>

\* the members callers add: a new one, and one under an id already in use
AddMemberArgs ==
    { Mk("m3", "Suzuki", {SK_QUALITY_ASSURANCE}, 40),
      Mk("m2", "Sato", {SK_DESIGN}, 32) }

addMember(member) ==
    LET st == Registered([members |-> members, teams |-> teams], member)
    IN  /\ members' = st.members
        /\ teams' = st.teams
        /\ mret' = [op |-> "addMember", memberId |-> member.id]
        /\ UNCHANGED <<taskPool, larkClient, projectVars>>

updateMemberSkills(memberId, skills) ==
    LET i == MemberIndex(memberId)
    IN  /\ members' = IF i # 0 THEN [members EXCEPT ![i].skills = skills]
                      ELSE members
        /\ mret' = [op |-> "updateMemberSkills", memberId |-> memberId]
        /\ UNCHANGED <<taskPool, teams, larkClient, projectVars>>

updateMemberAvailability(memberId, hours) ==
    LET i == MemberIndex(memberId)
    IN  /\ members' = IF i # 0 THEN [members EXCEPT ![i].availability = hours]
                      ELSE members
        /\ mret' = [op |-> "updateMemberAvailability", memberId |-> memberId]
        /\ UNCHANGED <<taskPool, teams, larkClient, projectVars>>

\* the Team objects callers create: without members
NewTeam(teamId, name) == [id |-> teamId, name |-> name, members |-> <<>>]

UnknownTeam == "team9"
TeamIdArgs == {"team1", UnknownTeam}

createTeam(team) ==
    /\ teams' = SetEntry(teams, team)
    /\ mret' = [op |-> "createTeam", teamId |-> team.id]
    /\ UNCHANGED <<members, taskPool, larkClient, projectVars>>

addMemberToTeam(teamId, memberId) ==
    LET t == IndexIn(teams, teamId)
    IN  /\ teams' = IF /\ t # 0
                       /\ MemberIndex(memberId) # 0
                       /\ IndexIn(teams[t].members, memberId) = 0
                    THEN [teams EXCEPT ![t].members = Append(@, TeamMember(memberId))]
                    ELSE teams
        /\ mret' = [op |-> "addMemberToTeam", threw |-> FALSE,
                    teamId |-> teamId, memberId |-> memberId]
        /\ UNCHANGED <<members, taskPool, larkClient, projectVars>>

\* the Member object a team entry refers to
MemberObject(entry) ==
    IF entry.detached = <<>> THEN members[MemberIndex(entry.id)]
    ELSE entry.detached[1]

\* utilizationRate as the fraction load / availability, 0 / 1 when
\* availability is not above 0
Utilization(load, availability) ==
    IF availability > 0 THEN <<load, availability>> ELSE <<0, 1>>

getTeamLoadSummary(teamId) ==
    LET t == IndexIn(teams, teamId)
    IN  /\ IF t = 0
           THEN mret' = [op |-> "getTeamLoadSummary", threw |-> TRUE,
                         teamId |-> teamId]
           ELSE LET objects == [j \in 1..Len(teams[t].members) |->
                                   MemberObject(teams[t].members[j])]
                    totalAvailability ==
                        SumSeq([j \in 1..Len(objects) |-> objects[j].availability])
                    totalLoad ==
                        SumSeq([j \in 1..Len(objects) |-> objects[j].currentLoad])
                IN  mret' = [op |-> "getTeamLoadSummary", threw |-> FALSE,
                             teamId |-> teamId,
                             value |->
                               [totalAvailability |-> totalAvailability,
                                totalLoad |-> totalLoad,
                                utilizationRate |->
                                    Utilization(totalLoad, totalAvailability),
                                members |->
                                  [j \in 1..Len(objects) |->
                                     [name |-> objects[j].name,
                                      availability |-> objects[j].availability,
                                      load |-> objects[j].currentLoad,
                                      utilizationRate |->
                                          Utilization(objects[j].currentLoad,
                                                      objects[j].availability)]]]]
        /\ UNCHANGED <<members, taskPool, teams, larkClient, projectVars>>

\* ids of requests for a project or a task the server does not have
UnknownProject == "no-such-project"
UnknownTask == <<SALES, 99>>
ProjectIdArgs == {"demo-001", UnknownProject}
TaskIdArgs == {generateStandardTasks[n].id : n \in 1..NumTasks} \cup {UnknownTask}

\* res.status(404).json({ error })
NotFound(error) == [op |-> "putTask", status |-> 404, error |-> error]

\* PUT /api/projects/:projectId/tasks/:taskId
PutRequest(projectId, taskId, body) ==
    IF projectId # project.id
    THEN /\ ret' = NotFound("Project not found")
         /\ UNCHANGED <<project, config, pending, now, memberVars>>
    ELSE IF IndexIn(project.tasks, taskId) = 0
    THEN /\ ret' = NotFound("Task not found")
         /\ UNCHANGED <<project, config, pending, now, memberVars>>
    ELSE PutTask(IndexIn(project.tasks, taskId), body)

RosterInit ==
    /\ members \in Rosters
    /\ taskPool \in TaskPools
    /\ teams = <<>>
    /\ larkClient \in {None, "lark"}
    /\ mret = NoCall
    /\ project = [id |-> "demo-001", tasks |-> generateStandardTasks,
                  phases |-> FreshPhases]
    /\ config = [autoTransition |-> TRUE, requireApproval |-> FALSE,
                 approvers |-> NoApprovers]
    /\ pending = NoPending
    /\ ret = NoRet
    /\ now = 0

RosterNext ==
    /\ Arranging
    /\ \/ \E m \in {"m1", "m2"}, k \in 1..Len(taskPool) : assignTaskToMember(m, k)
       \/ createTeam(NewTeam("team1", "Sales team"))
       \/ \E t \in TeamIdArgs, m \in MemberIdArgs : addMemberToTeam(t, m)
       \/ \E directory \in LarkDirectories : syncMembersFromLark(directory)
       \/ \E member \in AddMemberArgs : addMember(member)
       \/ \E m \in MemberIdArgs : updateMemberSkills(m, {SK_DESIGN})
       \/ \E m \in MemberIdArgs, hours \in {0, 20} : updateMemberAvailability(m, hours)
       \/ \E k \in 1..Len(taskPool) : CallRecommendMembersForTask(k, 3)
       \/ \E t \in TeamIdArgs : getTeamLoadSummary(t)
       \/ \E p \in ProjectIdArgs, t \in TaskIdArgs, body \in PutBodies :
             PutRequest(p, t, body)

SpecRoster == RosterInit /\ [][RosterNext]_vars

-----------------------------------------------------------------------------
(* C24, C25: unknown ids and the frame of the roster operations *)

\* C24: an operation given the id of a project, task or team that does not
\* exist reports a failure to its caller and never silently does nothing:
\* getTeamLoadSummary and addMemberToTeam throw for an unknown team id, and
\* the server answers 404 for an unknown project or task and leaves the
\* project as it is.
C24_UnknownIdReported ==
    [][ /\ ( /\ IsMemberCall("getTeamLoadSummary")
             /\ IndexIn(teams, mret'.teamId) = 0 )
           => mret'.threw
        /\ ( /\ IsMemberCall("addMemberToTeam")
             /\ IndexIn(teams, mret'.teamId) = 0 )
           => mret'.threw
        /\ \A p \in ProjectIdArgs, t \in TaskIdArgs, body \in PutBodies :
              ( /\ (p # project.id \/ IndexIn(project.tasks, t) = 0)
                /\ PutRequest(p, t, body) )
              => /\ ret'.status = 404
                 /\ project' = project
      ]_vars

OtherMemberOperations ==
    {"syncMembersFromLark", "addMember", "updateMemberSkills",
     "updateMemberAvailability", "recommendMembersForTask", "createTeam",
     "addMemberToTeam", "getTeamLoadSummary"}

\* C25: currentLoad and assignedTasks of a registered member change only
\* through assignTaskToMember, unassignTaskFromMember and balanceLoad: every
\* other MemberManager operation leaves the currentLoad and assignedTasks
\* recorded for every already-registered member id unchanged.
C25_LoadFrame ==
    [][ (\E op \in OtherMemberOperations : IsMemberCall(op))
        => \A i \in 1..Len(members) :
              LET j == IndexIn(members', members[i].id)
              IN  /\ j # 0
                  /\ members'[j].currentLoad = members[i].currentLoad
                  /\ members'[j].assignedTasks = members[i].assignedTasks
      ]_vars

====
